---- MODULE Spec2Model ----
(***************************************************************************)
(* Model of cubes/query/cells.py: the path/cut string codec                *)
(* (string_from_path, path_from_string, cut_from_string, cuts_from_string, *)
(* the cuts' __str__) and the Cell algebra (slice, multi_slice,            *)
(* point_slice, drilldown, rollup_dim, public_cell, __eq__).               *)
(*                                                                         *)
(* A Python str is a sequence of one-character strings.  An Optional value *)
(* is a sequence of length 0 (None) or 1 (the value).  A call returns a    *)
(* tagged record [t, v]; a raised exception is the record                  *)
(* [t |-> "error", v |-> [exc, text]].                                     *)
(***************************************************************************)
EXTENDS Integers, Sequences, FiniteSets, TLC

(***************************************************************************)
(* Bounds of the model.                                                    *)
(***************************************************************************)
\* longest path element of the path inputs
MaxElemLen == 2
\* most elements of a path input
MaxPathLen == 2
\* longest payload of a raw cut string input
MaxPayloadLen == 3

(***************************************************************************)
(* Characters.                                                             *)
(***************************************************************************)
BSL == "\\"

CUT_STRING_SEPARATOR_CHAR == "|"
DIMENSION_STRING_SEPARATOR_CHAR == ":"
PATH_STRING_SEPARATOR_CHAR == ","
RANGE_CUT_SEPARATOR_CHAR == "-"
SET_CUT_SEPARATOR_CHAR == ";"

\* the characters matched by \w among those the inputs are written in
WordChars == {"a", "b", "c", "d", "e", "h", "N", "o", "n", "u", "l", "_"}

\* NULL_PATH_VALUE = '__null__'
NULL_PATH_VALUE == <<"_", "_", "n", "u", "l", "l", "_", "_">>

\* Python's None as a path element (no str is equal to it), and str(None)
NoneElem == <<"<None>">>
NoneStr == <<"N", "o", "n", "e">>

\* Optional values
None == <<>>
Some(x) == <<x>>
IsNone(o) == Len(o) = 0
Truthy(o) == Len(o) = 1 /\ Len(o[1]) > 0

(***************************************************************************)
(* Results of calls.                                                       *)
(***************************************************************************)
NoCall == [t |-> "none", v |-> <<>>]
PathV(p) == [t |-> "path", v |-> p]
StrV(s) == [t |-> "str", v |-> s]
CutV(c) == [t |-> "cut", v |-> c]
CutsV(cs) == [t |-> "cuts", v |-> cs]
Raise(exc, text) == [t |-> "error", v |-> [exc |-> exc, text |-> text]]

(***************************************************************************)
(* Regular expressions of the codec.                                       *)
(***************************************************************************)
\* a match of (?<!\\)c at position i of s: the character c, not preceded by
\* a backslash
SeparatorAt(s, i, c) == s[i] = c /\ (i = 1 \/ s[i - 1] # BSL)

\* re.split of s on the pattern (?<!\\)c
RECURSIVE re_split(_, _)
re_split(s, c) ==
    IF \E i \in 1..Len(s) : SeparatorAt(s, i, c)
    THEN LET i == CHOOSE k \in 1..Len(s) :
                      /\ SeparatorAt(s, k, c)
                      /\ \A j \in 1..(k - 1) : ~SeparatorAt(s, j, c)
         IN  <<SubSeq(s, 1, i - 1)>> \o re_split(SubSeq(s, i + 1, Len(s)), c)
    ELSE <<s>>

\* PATH_ELEMENT = (?:\\.|[^:;|-])* matched against s[i..j], anchored at both
\* ends: at each position either a backslash and any next character, or one
\* character other than : ; | -
RECURSIVE PATH_ELEMENT(_, _, _)
PATH_ELEMENT(s, i, j) ==
    \/ i > j
    \/ /\ i < j
       /\ s[i] = BSL
       /\ PATH_ELEMENT(s, i + 2, j)
    \/ /\ i <= j
       /\ s[i] \notin {":", ";", "|", "-"}
       /\ PATH_ELEMENT(s, i + 1, j)

\* RE_POINT = ^PATH_ELEMENT$
RE_POINT(s) == PATH_ELEMENT(s, 1, Len(s))

\* the tail (;(PATH_ELEMENT))*$ of RE_SET from position p
RECURSIVE SetTail(_, _)
SetTail(s, p) ==
    \/ p > Len(s)
    \/ /\ s[p] = ";"
       /\ \E k \in p..Len(s) : PATH_ELEMENT(s, p + 1, k) /\ SetTail(s, k + 1)

\* RE_SET = ^(PATH_ELEMENT)(;(PATH_ELEMENT))*$
RE_SET(s) == \E k \in 0..Len(s) : PATH_ELEMENT(s, 1, k) /\ SetTail(s, k + 1)

\* RE_RANGE = ^(PATH_ELEMENT)?-(PATH_ELEMENT)?$
RE_RANGE(s) ==
    \E k \in 1..Len(s) :
       /\ s[k] = "-"
       /\ PATH_ELEMENT(s, 1, k - 1)
       /\ PATH_ELEMENT(s, k + 1, Len(s))

\* the characters of PATH_PART_ESCAPE_PATTERN = ([\\!|:;,-])
EscapedChars == {BSL, "!", "|", ":", ";", ",", "-"}

\* PATH_PART_ESCAPE_PATTERN.sub(r"\\\1", s)
RECURSIVE escape_sub(_)
escape_sub(s) ==
    IF s = <<>> THEN <<>>
    ELSE (IF s[1] \in EscapedChars THEN <<BSL, s[1]>> ELSE <<s[1]>>)
         \o escape_sub(Tail(s))

\* PATH_PART_UNESCAPE_PATTERN.sub(r"\1", s): matches are found left to right
\* and do not overlap
RECURSIVE unescape_sub(_)
unescape_sub(s) ==
    IF s = <<>> THEN <<>>
    ELSE IF Len(s) >= 2 /\ s[1] = BSL /\ s[2] \in EscapedChars
         THEN <<s[2]>> \o unescape_sub(SubSeq(s, 3, Len(s)))
         ELSE <<s[1]>> \o unescape_sub(Tail(s))

(***************************************************************************)
(* Paths.                                                                  *)
(***************************************************************************)
\* str(s) of a path element
PyStr(e) == IF e = NoneElem THEN NoneStr ELSE e

_path_part_escape(part) ==
    IF part = NoneElem THEN NULL_PATH_VALUE ELSE escape_sub(part)

_path_part_unescape(part) ==
    IF part = NULL_PATH_VALUE THEN NoneElem ELSE unescape_sub(part)

\* sep.join(parts)
RECURSIVE join(_, _)
join(sep, parts) ==
    IF parts = <<>> THEN <<>>
    ELSE IF Len(parts) = 1 THEN parts[1]
         ELSE parts[1] \o <<sep>> \o join(sep, Tail(parts))

string_from_path(path) ==
    IF path = <<>> THEN <<>>
    ELSE join(PATH_STRING_SEPARATOR_CHAR,
              [i \in 1..Len(path) |-> _path_part_escape(PyStr(path[i]))])

path_from_string(string) ==
    IF string = <<>> THEN <<>>
    ELSE LET parts == re_split(string, PATH_STRING_SEPARATOR_CHAR)
         IN  [i \in 1..Len(parts) |-> _path_part_unescape(parts[i])]

(***************************************************************************)
(* Cuts.  One record shape for the three classes: the fields a class does  *)
(* not have are None or empty.  oid is the identity of the object (the     *)
(* Python `is`).                                                           *)
(***************************************************************************)
PointCut(dimension, path, hierarchy, invert, hidden, oid) ==
    [kind |-> "point", dimension |-> dimension, hierarchy |-> hierarchy,
     invert |-> invert, hidden |-> hidden, path |-> path,
     from_path |-> None, to_path |-> None, paths |-> <<>>, oid |-> oid]

RangeCut(dimension, from_path, to_path, hierarchy, invert, hidden, oid) ==
    [kind |-> "range", dimension |-> dimension, hierarchy |-> hierarchy,
     invert |-> invert, hidden |-> hidden, path |-> <<>>,
     from_path |-> from_path, to_path |-> to_path, paths |-> <<>>, oid |-> oid]

SetCut(dimension, paths, hierarchy, invert, hidden, oid) ==
    [kind |-> "set", dimension |-> dimension, hierarchy |-> hierarchy,
     invert |-> invert, hidden |-> hidden, path |-> <<>>,
     from_path |-> None, to_path |-> None, paths |-> paths, oid |-> oid]

\* PointCut.__eq__, RangeCut.__eq__, SetCut.__eq__: same class, dimension,
\* path data and invert; hierarchy and hidden do not take part
CutEq(a, b) ==
    /\ a.kind = b.kind
    /\ a.dimension = b.dimension
    /\ a.path = b.path
    /\ a.from_path = b.from_path
    /\ a.to_path = b.to_path
    /\ a.paths = b.paths
    /\ a.invert = b.invert

string_from_hierarchy(dimension, hierarchy) ==
    IF Truthy(hierarchy)
    THEN _path_part_escape(dimension) \o <<"@">> \o _path_part_escape(hierarchy[1])
    ELSE _path_part_escape(dimension)

\* PointCut.__str__, RangeCut.__str__, SetCut.__str__
CutStr(cut) ==
    LET payload ==
            CASE cut.kind = "point" -> string_from_path(cut.path)
              [] cut.kind = "range" ->
                    (IF Truthy(cut.from_path)
                     THEN string_from_path(cut.from_path[1])
                     ELSE string_from_path(<<>>))
                    \o <<RANGE_CUT_SEPARATOR_CHAR>> \o
                    (IF Truthy(cut.to_path)
                     THEN string_from_path(cut.to_path[1])
                     ELSE string_from_path(<<>>))
              [] cut.kind = "set" ->
                    join(SET_CUT_SEPARATOR_CHAR,
                         [i \in 1..Len(cut.paths) |-> string_from_path(cut.paths[i])])
    IN  (IF cut.invert THEN <<"!">> ELSE <<>>)
        \o string_from_hierarchy(cut.dimension, cut.hierarchy)
        \o <<DIMENSION_STRING_SEPARATOR_CHAR>> \o payload

\* string_from_cuts
string_from_cuts(cuts) ==
    join(CUT_STRING_SEPARATOR_CHAR, [i \in 1..Len(cuts) |-> CutStr(cuts[i])])

(***************************************************************************)
(* cut_from_string.                                                        *)
(***************************************************************************)
\* the end of the longest run of \w characters of s that starts at i
\* (i - 1 when s[i] is no \w character)
RECURSIVE WordRunEnd(_, _)
WordRunEnd(s, i) ==
    IF i <= Len(s) /\ s[i] \in WordChars THEN WordRunEnd(s, i + 1) ELSE i - 1

\* dim_hier_pattern.match(dimspec):  (?P<invert>!)?(?P<dim>\w+)(@(?P<hier>\w+))?
\* matched at the start of dimspec, not to its end.  None when there is no
\* match, else the groups.
dim_hier_pattern(dimspec) ==
    LET inv == Len(dimspec) >= 1 /\ dimspec[1] = "!"
        first == IF inv THEN 2 ELSE 1
        last == WordRunEnd(dimspec, first)
        hlast == WordRunEnd(dimspec, last + 2)
        hasHier == /\ last + 1 <= Len(dimspec)
                   /\ dimspec[last + 1] = "@"
                   /\ hlast >= last + 2
    IN  IF last < first THEN None
        ELSE Some([invert |-> inv,
                   dim |-> SubSeq(dimspec, first, last),
                   hier |-> IF hasHier
                            THEN Some(SubSeq(dimspec, last + 2, hlast))
                            ELSE None])

\* the exception of a read of a local name that has no value
UnboundLocalError(name) == Raise("UnboundLocalError", <<name>>)

\* cut_from_string(string, cube) without member converters.  The locals
\* `dimension` and `hierarchy` are declared (lines 772-773) and assigned only
\* at lines 802-803, after the read of `dimension` at line 799: they are
\* modelled as Optionals that are None while unbound.
cut_from_string(string, cube) ==
    LET parts == re_split(string, DIMENSION_STRING_SEPARATOR_CHAR)
    IN
    IF Len(parts) # 2
    THEN Raise("ArgumentError", string)
    ELSE
    LET dimspec == parts[1]
        payload == parts[2]
        match == dim_hier_pattern(dimspec)
        dimension == None
        hierarchy == None
    IN
    IF IsNone(match)
    THEN Raise("ArgumentError", dimspec)
    ELSE IF cube
    THEN UnboundLocalError("dimension")
    ELSE IF payload = <<>>
    THEN IF IsNone(dimension) THEN UnboundLocalError("dimension")
         ELSE CutV(PointCut(dimension[1], <<<<>>>>, hierarchy,
                            match[1].invert, FALSE, 0))
    ELSE IF RE_POINT(payload)
    THEN LET path == path_from_string(payload)
         IN  IF IsNone(dimension) THEN UnboundLocalError("dimension")
             ELSE CutV(PointCut(dimension[1], path, hierarchy,
                                match[1].invert, FALSE, 0))
    ELSE IF RE_SET(payload)
    THEN LET split == re_split(payload, SET_CUT_SEPARATOR_CHAR)
             paths == [i \in 1..Len(split) |-> path_from_string(split[i])]
         IN  IF IsNone(dimension) THEN UnboundLocalError("dimension")
             ELSE CutV(SetCut(dimension[1], paths, hierarchy,
                              match[1].invert, FALSE, 0))
    ELSE IF RE_RANGE(payload)
    THEN LET split == re_split(payload, RANGE_CUT_SEPARATOR_CHAR)
         IN  IF Len(split) # 2 THEN Raise("ValueError", payload)
             ELSE IF IsNone(dimension) THEN UnboundLocalError("dimension")
             ELSE CutV(RangeCut(dimension[1],
                                Some(path_from_string(split[1])),
                                Some(path_from_string(split[2])),
                                hierarchy, match[1].invert, FALSE, 0))
    ELSE Raise("ArgumentError", payload)

\* the loop of cuts_from_string over dim_cuts[i..]: the first exception ends it
RECURSIVE cuts_loop(_, _, _, _)
cuts_loop(dim_cuts, i, cube, cuts) ==
    IF i > Len(dim_cuts) THEN CutsV(cuts)
    ELSE LET cut == cut_from_string(dim_cuts[i], cube)
         IN  IF cut.t = "error" THEN cut
             ELSE cuts_loop(dim_cuts, i + 1, cube, Append(cuts, cut.v))

cuts_from_string(cube, string) ==
    IF string = <<>> THEN CutsV(<<>>)
    ELSE cuts_loop(re_split(string, CUT_STRING_SEPARATOR_CHAR), 1, cube, <<>>)

(***************************************************************************)
(* State.                                                                  *)
(*   arg, cube   the arguments of a codec call                             *)
(*   enc         the string form of arg, once it has been encoded          *)
(*   ret         what the last decoding call returned or raised            *)
(*   pc          "start", "encoded" or the name of the decoding call made  *)
(*   cell        the cuts of the current Cell                              *)
(*   prev        the cuts of the receiver of the last Cell operation       *)
(*   op          the last Cell operation and its arguments                 *)
(*   nextId      the identity the next allocated cut gets                  *)
(*   undefined   whether drilldown was ever applied to a dimension whose   *)
(*               cut is not a PointCut                                     *)
(*   heap        the Cell objects and the list objects their cuts          *)
(*               attributes refer to                                       *)
(*   browser     the options of the SQLBrowser                             *)
(*   call        the arguments of the provide_aggregate call in progress   *)
(*   executed    the statements the call has passed to execute, in order   *)
(*   result      the AggregationResult of the call, or what it raised      *)
(*   at          the position of the call in provide_aggregate             *)
(*   cursor      the cursor of a drilldown query: its rows and how many    *)
(*               of them were fetched                                      *)
(*   stream      the attributes of the ResultIterator over the cursor      *)
(*   gens        the generators made by iter(stream): where each stands    *)
(*   out         the records the generators have yielded, in order         *)
(***************************************************************************)
VARIABLES arg, cube, enc, ret, pc, cell, prev, op, nextId, undefined,
          heap, browser, call, executed, result, at,
          cursor, stream, gens, out

codecVars == <<arg, cube, enc, ret, pc>>
cellVars == <<cell, prev, op, nextId, undefined>>
heapVars == <<heap>>
browserVars == <<browser, call, executed, result, at>>
streamVars == <<cursor, stream, gens, out>>
vars == <<arg, cube, enc, ret, pc, cell, prev, op, nextId, undefined,
          heap, browser, call, executed, result, at,
          cursor, stream, gens, out>>

(***************************************************************************)
(* Inputs of the codec.                                                    *)
(***************************************************************************)
\* the sequences over S of length 0..n
SeqsUpTo(S, n) == UNION {[1..k -> S] : k \in 0..n}

\* the characters path elements are written in: a plain one, the backslash
\* and the reserved ones
Alphabet == {"a", BSL, "|", ":", ",", "-", ";", "!"}

PathElements == SeqsUpTo(Alphabet, MaxElemLen)
PathInputs == SeqsUpTo(PathElements, MaxPathLen)

\* the paths of the cut inputs
CutPaths == SeqsUpTo({<<"a">>, <<"b">>, <<"-">>}, 2)
OptCutPaths == {None} \cup {Some(p) : p \in CutPaths}
Dim == <<"d">>
Hier == <<"h">>

CutInputs ==
    {PointCut(Dim, p, h, i, FALSE, 0) :
        p \in CutPaths, h \in {None, Some(Hier)}, i \in BOOLEAN}
    \cup
    {RangeCut(Dim, f, u, None, i, FALSE, 0) :
        f \in OptCutPaths, u \in OptCutPaths, i \in BOOLEAN}
    \cup
    {SetCut(Dim, ps, None, i, FALSE, 0) :
        ps \in SeqsUpTo(CutPaths \ {<<>>}, 2) \ {<<>>}, i \in BOOLEAN}

\* raw cut strings: a dimension spec, a ':' or none, and any payload
DimSpecs == {<<"d">>, <<"!", "d">>, <<"d", "@", "h">>, <<>>}
Payloads == SeqsUpTo({"a", ",", "-", ";", ":", BSL}, MaxPayloadLen)
RawCutStrings ==
    {ds \o sep \o pl : ds \in DimSpecs, sep \in {<<>>, <<":">>}, pl \in Payloads}

\* raw strings of two cuts
SecondCuts == {<<"e", ":", "c">>, <<"e", ":", "c", "-">>, <<"e">>}
RawCutLists ==
    {<<"d", ":">> \o pl \o <<"|">> \o c2 : pl \in Payloads, c2 \in SecondCuts}

CodecInputs ==
    {PathV(p) : p \in PathInputs}
    \cup {CutV(c) : c \in CutInputs}
    \cup {StrV(s) : s \in RawCutStrings \cup RawCutLists}

CodecInit ==
    /\ arg \in CodecInputs
    /\ cube \in BOOLEAN
    /\ enc = NoCall
    /\ ret = NoCall
    /\ pc = "start"

CodecIdle ==
    /\ arg = NoCall
    /\ cube = FALSE
    /\ enc = NoCall
    /\ ret = NoCall
    /\ pc = "idle"

(***************************************************************************)
(* Calls of the codec.                                                     *)
(***************************************************************************)
\* string_from_path(arg)
StringFromPath ==
    /\ pc = "start"
    /\ arg.t = "path"
    /\ enc' = StrV(string_from_path(arg.v))
    /\ pc' = "encoded"
    /\ UNCHANGED <<arg, cube, ret>>
    /\ UNCHANGED <<cellVars, heapVars, browserVars, streamVars>>

\* path_from_string(string_from_path(arg))
PathFromString ==
    /\ pc = "encoded"
    /\ arg.t = "path"
    /\ ret' = PathV(path_from_string(enc.v))
    /\ pc' = "path_from_string"
    /\ UNCHANGED <<arg, cube, enc>>
    /\ UNCHANGED <<cellVars, heapVars, browserVars, streamVars>>

\* str(arg) of a cut
StrOfCut ==
    /\ pc = "start"
    /\ arg.t = "cut"
    /\ enc' = StrV(CutStr(arg.v))
    /\ pc' = "encoded"
    /\ UNCHANGED <<arg, cube, ret>>
    /\ UNCHANGED <<cellVars, heapVars, browserVars, streamVars>>

\* cut_from_string(str(arg), cube) of a cut, cut_from_string(arg, cube) of a
\* raw string
CutFromString ==
    /\ \/ pc = "encoded" /\ arg.t = "cut" /\ ret' = cut_from_string(enc.v, cube)
       \/ pc = "start" /\ arg.t = "str" /\ ret' = cut_from_string(arg.v, cube)
    /\ pc' = "cut_from_string"
    /\ UNCHANGED <<arg, cube, enc>>
    /\ UNCHANGED <<cellVars, heapVars, browserVars, streamVars>>

\* cuts_from_string(cube, arg) of a raw string
CutsFromString ==
    /\ pc = "start"
    /\ arg.t = "str"
    /\ ret' = cuts_from_string(cube, arg.v)
    /\ pc' = "cuts_from_string"
    /\ UNCHANGED <<arg, cube, enc>>
    /\ UNCHANGED <<cellVars, heapVars, browserVars, streamVars>>

CodecNext ==
    \/ StringFromPath
    \/ PathFromString
    \/ StrOfCut
    \/ CutFromString
    \/ CutsFromString

\* the Cell of the codec's specification: no Cell operation is made
CellIdle ==
    /\ cell = <<>>
    /\ prev = <<>>
    /\ op = [name |-> "none"]
    /\ nextId = 0
    /\ undefined = FALSE

\* no Cell object is allocated
HeapIdle == heap = [cells |-> <<>>, lists |-> <<>>]

\* no browser is in use
BrowserIdle ==
    /\ browser = [include_summary |-> TRUE, include_cell_count |-> TRUE]
    /\ call = NoCall
    /\ executed = <<>>
    /\ result = NoCall
    /\ at = "idle"

\* the generators a caller makes of one ResultIterator
Generators == {1, 2}

\* no result is iterated
StreamIdle ==
    /\ cursor = [rows |-> <<>>, pos |-> 0, closed |-> FALSE, batches |-> 0]
    /\ stream = [batch |-> None, labels |-> <<>>, exclude_if_null |-> None]
    /\ gens = [g \in Generators |-> "none"]
    /\ out = <<>>

InitCodec == CodecInit /\ CellIdle /\ HeapIdle /\ BrowserIdle /\ StreamIdle

SpecCodec == InitCodec /\ [][CodecNext]_vars

(***************************************************************************)
(* Claims about the codec, checked under SpecCodec.                        *)
(***************************************************************************)
\* the two sides of a cut string that has exactly one unescaped ':'
HasOneColon(s) == Len(re_split(s, DIMENSION_STRING_SEPARATOR_CHAR)) = 2
DimSpecOf(s) == re_split(s, DIMENSION_STRING_SEPARATOR_CHAR)[1]
PayloadOf(s) == re_split(s, DIMENSION_STRING_SEPARATOR_CHAR)[2]

\* a cut string of the grammar: (!)?dimension(@hierarchy)?:payload
HasDimSpec(s) == HasOneColon(s) /\ ~IsNone(dim_hier_pattern(DimSpecOf(s)))

\* a payload made only of ','-separated elements
IsPointPayload(pl) ==
    \A i \in 1..Len(pl) : \A c \in {":", ";", "|", "-"} : ~SeparatorAt(pl, i, c)

\* a payload of two or more paths joined by unescaped ';'
IsSetPayload(pl) ==
    /\ \E i \in 1..Len(pl) : SeparatorAt(pl, i, ";")
    /\ \A i \in 1..Len(pl) : \A c \in {":", "|", "-"} : ~SeparatorAt(pl, i, c)

\* a payload from-to: one unescaped '-' and no other unescaped separator
IsRangePayload(pl) ==
    /\ Cardinality({i \in 1..Len(pl) : SeparatorAt(pl, i, "-")}) = 1
    /\ \A i \in 1..Len(pl) : \A c \in {":", "|", ";"} : ~SeparatorAt(pl, i, c)

\* a side of a range: None when omitted, else the decoded path
OptPathFromString(s) == IF s = <<>> THEN None ELSE Some(path_from_string(s))

\* C1: for every Point, Range and Set cut that is not hidden, parsing the
\* cut's string form gives back an equal cut: cut_from_string(str(cut)) == cut.
C1_CutRoundTrip ==
    (pc = "cut_from_string" /\ arg.t = "cut")
        => (ret.t = "cut" /\ CutEq(ret.v, arg.v))

\* C2: for every non-empty path of non-empty elements over the alphabet with
\* the reserved characters and the backslash,
\* path_from_string(string_from_path(path)) == path.
C2_PathRoundTrip ==
    (/\ pc = "path_from_string"
     /\ arg.v # <<>>
     /\ \A i \in 1..Len(arg.v) : arg.v[i] # <<>>)
        => ret.v = arg.v

\* C3: a path holding one empty-string element encodes to a token other than
\* the encoding of the empty path and decodes back to [""], while the empty
\* path decodes back to [].
C3_EmptyElementIsDistinct ==
    (pc = "path_from_string" /\ arg.v = <<<<>>>>)
        => /\ enc.v # string_from_path(<<>>)
           /\ ret.v = <<<<>>>>
           /\ path_from_string(string_from_path(<<>>)) = <<>>

\* C4: cuts_from_string on N cut strings joined by unescaped '|' returns N
\* cuts in the same order, and a payload made only of ','-separated elements
\* yields a PointCut of that dimension whose path is those elements in order.
C4_CutsFromString ==
    LET pieces == re_split(arg.v, CUT_STRING_SEPARATOR_CHAR)
        wellFormed(s) ==
            /\ HasDimSpec(s)
            /\ \/ IsPointPayload(PayloadOf(s))
               \/ IsSetPayload(PayloadOf(s))
               \/ IsRangePayload(PayloadOf(s))
    IN  (/\ pc = "cuts_from_string"
         /\ arg.v # <<>>
         /\ \A i \in 1..Len(pieces) : wellFormed(pieces[i]))
            => /\ ret.t = "cuts"
               /\ Len(ret.v) = Len(pieces)
               /\ \A i \in 1..Len(pieces) :
                     (IsPointPayload(PayloadOf(pieces[i])) /\ PayloadOf(pieces[i]) # <<>>)
                        => /\ ret.v[i].kind = "point"
                           /\ ret.v[i].dimension = dim_hier_pattern(DimSpecOf(pieces[i]))[1].dim
                           /\ ret.v[i].path = path_from_string(PayloadOf(pieces[i]))

\* C5: a payload from-to parses to a RangeCut whose from_path and to_path are
\* the decoded sides, an omitted side being None and not an empty list.
C5_RangeFromString ==
    (/\ pc = "cut_from_string"
     /\ arg.t = "str"
     /\ HasDimSpec(arg.v)
     /\ IsRangePayload(PayloadOf(arg.v)))
        => LET sides == re_split(PayloadOf(arg.v), RANGE_CUT_SEPARATOR_CHAR)
           IN  /\ ret.t = "cut"
               /\ ret.v.kind = "range"
               /\ ret.v.from_path = OptPathFromString(sides[1])
               /\ ret.v.to_path = OptPathFromString(sides[2])

\* C6: a payload of two or more paths joined by unescaped ';' parses to a
\* SetCut whose paths are the decoded members in order.
C6_SetFromString ==
    (/\ pc = "cut_from_string"
     /\ arg.t = "str"
     /\ HasDimSpec(arg.v)
     /\ IsSetPayload(PayloadOf(arg.v)))
        => LET members == re_split(PayloadOf(arg.v), SET_CUT_SEPARATOR_CHAR)
           IN  /\ ret.t = "cut"
               /\ ret.v.kind = "set"
               /\ ret.v.paths = [i \in 1..Len(members) |-> path_from_string(members[i])]

\* a payload that matches none of the point, set and range patterns
MatchesNoPattern(pl) == ~RE_POINT(pl) /\ ~RE_SET(pl) /\ ~RE_RANGE(pl)

\* C7: when the payload matches none of the point, set and range patterns, or
\* the cut string does not hold exactly one unescaped ':', cut_from_string
\* raises ArgumentError carrying the offending text and returns no cut.
C7_ParseError ==
    (/\ pc = "cut_from_string"
     /\ arg.t = "str"
     /\ \/ ~HasOneColon(arg.v)
        \/ MatchesNoPattern(PayloadOf(arg.v)))
        => /\ ret.t = "error"
           /\ ret.v.exc = "ArgumentError"
           /\ \/ ret.v.text = arg.v
              \/ HasOneColon(arg.v) /\ ret.v.text \in {DimSpecOf(arg.v), PayloadOf(arg.v)}

(***************************************************************************)
(* Cell.  A Cell is its list of cuts.  The dimension of a cut is the name  *)
(* of the dimension; its hierarchy object is outside cells.py.             *)
(***************************************************************************)
\* deepest path a drilldown is taken to
MaxDepth == 2
\* most cuts the operations of one behaviour allocate
MaxFresh == 2
\* most cuts of one multi_slice call
MaxMulti == 2

\* Hierarchy.rollup(path, level) of the dimensional model: the path cut to
\* its parent, or, with a level, to the level just above that level; a level
\* is given by its position in the hierarchy
hierarchy_rollup(path, level) ==
    LET last == IF IsNone(level) THEN Len(path) - 1 ELSE level[1] - 1
    IN  IF last <= 0 THEN <<>>
        ELSE IF last >= Len(path) THEN path
        ELSE SubSeq(path, 1, last)

\* Cell._dimension_cut_index: the index of the first cut of the dimension
_dimension_cut_index(cuts, dimension) ==
    IF \E i \in 1..Len(cuts) : cuts[i].dimension = dimension
    THEN Some(CHOOSE i \in 1..Len(cuts) :
                 /\ cuts[i].dimension = dimension
                 /\ \A j \in 1..(i - 1) : cuts[j].dimension # dimension)
    ELSE None

\* a slice that always appends the cut
slice_append(cuts, cut) == Append(cuts, cut)

\* a slice that replaces the last cut of the dimension, not the first
slice_last(cuts, cut) ==
    LET same == {i \in 1..Len(cuts) : cuts[i].dimension = cut.dimension}
    IN  IF same = {} THEN Append(cuts, cut)
        ELSE [cuts EXCEPT ![CHOOSE i \in same : \A j \in same : j <= i] = cut]

\* Cell.slice
slice(cuts, cut) ==
    LET index == _dimension_cut_index(cuts, cut.dimension)
    IN  IF ~IsNone(index)
        THEN [cuts EXCEPT ![index[1]] = cut]
        ELSE Append(cuts, cut)

\* Cell.multi_slice of a list of cuts
RECURSIVE multi_slice(_, _)
multi_slice(cuts, list) ==
    IF list = <<>> THEN cuts
    ELSE multi_slice(slice(cuts, Head(list)), Tail(list))

\* [x for x in cuts if keep(x)] for the indices in keep
RECURSIVE Filter(_, _, _)
Filter(cuts, i, keep) ==
    IF i > Len(cuts) THEN <<>>
    ELSE (IF i \in keep THEN <<cuts[i]>> ELSE <<>>) \o Filter(cuts, i + 1, keep)

\* Cell.dimension_cuts
dimension_cuts(cuts, dimension, exclude) ==
    Filter(cuts, 1,
           {i \in 1..Len(cuts) :
               \/ exclude /\ cuts[i].dimension # dimension
               \/ ~exclude /\ cuts[i].dimension = dimension})

\* Cell.point_slice; oid is the identity of the PointCut it allocates
point_slice(cuts, dimension, path, oid) ==
    LET kept == dimension_cuts(cuts, dimension, TRUE)
    IN  IF path # <<>>
        THEN Append(kept, PointCut(dimension, path, None, FALSE, FALSE, oid))
        ELSE kept

\* Cell.point_cut_for_dimension: the first PointCut of the dimension, or None
point_cut_for_dimension(cuts, dimension) ==
    LET points == {i \in 1..Len(cuts) :
                      cuts[i].kind = "point" /\ cuts[i].dimension = dimension}
    IN  IF points = {} THEN None
        ELSE Some(cuts[CHOOSE i \in points : \A j \in points : i <= j])

\* [cut for cut in cuts if cut is not dim_cut]
without(cuts, dim_cut) ==
    Filter(cuts, 1,
           {i \in 1..Len(cuts) : IsNone(dim_cut) \/ cuts[i].oid # dim_cut[1].oid})

\* Cell.drilldown; oid is the identity of the PointCut it allocates
drilldown(cuts, dimension, value, hierarchy, oid) ==
    LET dim_cut == point_cut_for_dimension(cuts, dimension)
        old_path == IF ~IsNone(dim_cut) THEN dim_cut[1].path ELSE <<>>
        new_cut == PointCut(dimension, Append(old_path, value), hierarchy,
                            FALSE, FALSE, oid)
    IN  Append(without(cuts, dim_cut), new_cut)

\* Cell.rollup_dim; oid is the identity of the PointCut it allocates
rollup_dim(cuts, dimension, level, hierarchy, oid) ==
    LET dim_cut == point_cut_for_dimension(cuts, dimension)
        rollup_path == hierarchy_rollup(dim_cut[1].path, level)
    IN  IF IsNone(dim_cut) THEN cuts
        ELSE IF rollup_path # <<>>
        THEN Append(without(cuts, dim_cut),
                    PointCut(dimension, rollup_path, hierarchy, FALSE, FALSE, oid))
        ELSE without(cuts, dim_cut)

\* Cell.public_cell
public_cell(cuts) ==
    Filter(cuts, 1, {i \in 1..Len(cuts) : ~cuts[i].hidden})

\* Cell.__and__: the cuts of the receiver followed by the cuts of the other
__and__(self, other) == self \o other

\* cuts.get(dim_name) of the OrderedDict Cell.rollup builds from the cuts in
\* order: the last cut of the dimension, or None
cuts_get(cuts, dim_name) ==
    LET same == {i \in 1..Len(cuts) : cuts[i].dimension = dim_name}
    IN  IF same = {} THEN None
        ELSE Some(cuts[CHOOSE i \in same : \A j \in same : j <= i])

\* Cell.rollup, the loop over a list of dimension names; the PointCuts it
\* allocates get the identities from oid on
RECURSIVE rollup_list(_, _, _, _)
rollup_list(cuts, names, new_cuts, oid) ==
    IF names = <<>> THEN CutsV(new_cuts)
    ELSE LET dim_name == Head(names)
             cut == cuts_get(cuts, dim_name)
         IN  IF IsNone(cut)
             THEN rollup_list(cuts, Tail(names), new_cuts, oid)
             ELSE IF cut[1].kind = "point"
             THEN Raise("NotImplementedError", dim_name)
             \* cut.path: only a PointCut has the attribute
             ELSE IF cut[1].kind # "point"
             THEN Raise("AttributeError", <<"path">>)
             ELSE rollup_list(cuts, Tail(names),
                              Append(new_cuts,
                                     PointCut(cut[1].dimension,
                                              hierarchy_rollup(cut[1].path, None),
                                              None, FALSE, FALSE, oid)),
                              oid + 1)

\* Cell.rollup, the loop over the items of a mapping dimension -> level
RECURSIVE rollup_items(_, _, _, _)
rollup_items(cuts, items, new_cuts, oid) ==
    IF items = <<>> THEN CutsV(new_cuts)
    ELSE LET dim_name == Head(items)[1]
             level_name == Head(items)[2]
             cut == cuts_get(cuts, dim_name)
         IN  IF IsNone(cut)
             THEN Raise("KeyError", dim_name)
             ELSE IF cut[1].kind # "point"
             THEN Raise("NotImplementedError", dim_name)
             ELSE rollup_items(cuts, Tail(items),
                               Append(new_cuts,
                                      PointCut(cut[1].dimension,
                                               hierarchy_rollup(cut[1].path,
                                                                Some(level_name)),
                                               None, FALSE, FALSE, oid)),
                               oid + 1)

\* type(self.drilldown) in Cell.rollup: drilldown is a method of Cell
type_of_self_drilldown == "method"

\* Cell.rollup(rollup): rollup_spec is a name ("str"), a list of names
\* ("list") or the items of a mapping ("dict")
rollup(cuts, rollup_spec, oid) ==
    LET spec == IF rollup_spec.t = "str"
                THEN [t |-> "list", v |-> <<rollup_spec.v>>]
                ELSE rollup_spec
    IN  IF spec.t = "list"
        THEN rollup_list(cuts, spec.v, <<>>, oid)
        ELSE IF type_of_self_drilldown = "dict"
        THEN rollup_items(cuts, spec.v, <<>>, oid)
        ELSE Raise("ArgumentError", <<type_of_self_drilldown>>)

\* x in cuts, by the cuts' __eq__
CutIn(x, cuts) == \E i \in 1..Len(cuts) : CutEq(x, cuts[i])

\* Cell.__eq__(self, other)
CellEq(self, other) ==
    IF Len(self) # Len(other) THEN FALSE
    ELSE \A i \in 1..Len(self) : CutIn(self[i], other)

(***************************************************************************)
(* The cuts a caller holds and passes to the operations.  Each is one      *)
(* object: its oid is fixed.  The operations allocate the oids above       *)
(* FirstFresh.                                                             *)
(***************************************************************************)
Dimensions == {<<"d">>, <<"e">>}
Values == {<<"1">>, <<"2">>}

CutPool ==
    {PointCut(<<"d">>, <<<<"1">>>>, None, FALSE, FALSE, 1),
     RangeCut(<<"d">>, Some(<<<<"1">>>>), None, None, FALSE, FALSE, 2),
     PointCut(<<"d">>, <<<<"2">>>>, None, FALSE, TRUE, 3),
     SetCut(<<"e">>, <<<<<<"1">>>>, <<<<"2">>>>>>, None, FALSE, FALSE, 4),
     PointCut(<<"e">>, <<<<"1">>, <<"2">>>>, Some(Hier), TRUE, TRUE, 5)}
FirstFresh == Cardinality(CutPool) + 1

\* the cuts passed in the lists of multi_slice: two of one dimension and one
\* of the other
MultiPool == {c \in CutPool : c.oid \in {1, 2, 4}}

\* whether every cut of the dimension is a PointCut: what drilldown's
\* docstring asks for ("Works only if the cut for dimension is PointCut.
\* Otherwise the behaviour is undefined.")
OnlyPointCuts(cuts, dimension) ==
    \A i \in 1..Len(cuts) : cuts[i].dimension = dimension => cuts[i].kind = "point"

(***************************************************************************)
(* Operations on the current Cell, which starts empty.                     *)
(***************************************************************************)
CellInit ==
    /\ cell = <<>>
    /\ prev = <<>>
    /\ op = [name |-> "none"]
    /\ nextId = FirstFresh
    /\ undefined = FALSE

Slice ==
    \E cut \in CutPool :
       /\ cell' = slice(cell, cut)
       /\ prev' = cell
       /\ op' = [name |-> "slice", cut |-> cut]
       /\ UNCHANGED <<nextId, undefined>>
       /\ UNCHANGED <<codecVars, heapVars, browserVars, streamVars>>

MultiSlice ==
    \E list \in SeqsUpTo(MultiPool, MaxMulti) :
       /\ cell' = multi_slice(cell, list)
       /\ prev' = cell
       /\ op' = [name |-> "multi_slice"]
       /\ UNCHANGED <<nextId, undefined>>
       /\ UNCHANGED <<codecVars, heapVars, browserVars, streamVars>>

PointSlice ==
    \E dimension \in Dimensions, path \in SeqsUpTo({<<"1">>}, MaxDepth) :
       /\ nextId < FirstFresh + MaxFresh
       /\ cell' = point_slice(cell, dimension, path, nextId)
       /\ nextId' = IF path # <<>> THEN nextId + 1 ELSE nextId
       /\ prev' = cell
       /\ op' = [name |-> "point_slice"]
       /\ UNCHANGED undefined
       /\ UNCHANGED <<codecVars, heapVars, browserVars, streamVars>>

Drilldown ==
    \E dimension \in Dimensions, value \in Values, hierarchy \in {None, Some(Hier)} :
       /\ nextId < FirstFresh + MaxFresh
       /\ \A i \in 1..Len(cell) : Len(cell[i].path) < MaxDepth
       /\ cell' = drilldown(cell, dimension, value, hierarchy, nextId)
       /\ nextId' = nextId + 1
       /\ undefined' = (undefined \/ ~OnlyPointCuts(cell, dimension))
       /\ prev' = cell
       /\ op' = [name |-> "drilldown"]
       /\ UNCHANGED <<codecVars, heapVars, browserVars, streamVars>>

RollupDim ==
    \E dimension \in Dimensions, level \in {None} \cup {Some(k) : k \in 1..MaxDepth},
       hierarchy \in {None} :
       /\ nextId < FirstFresh + MaxFresh
       /\ cell' = rollup_dim(cell, dimension, level, hierarchy, nextId)
       /\ nextId' = IF \E i \in 1..Len(cell') : cell'[i].oid = nextId
                    THEN nextId + 1 ELSE nextId
       /\ prev' = cell
       /\ op' = [name |-> "rollup_dim", dimension |-> dimension, level |-> level]
       /\ UNCHANGED undefined
       /\ UNCHANGED <<codecVars, heapVars, browserVars, streamVars>>

PublicCell ==
    /\ cell' = public_cell(cell)
    /\ prev' = cell
    /\ op' = [name |-> "public_cell"]
    /\ UNCHANGED <<nextId, undefined>>
    /\ UNCHANGED <<codecVars, heapVars, browserVars, streamVars>>

Init == CodecIdle /\ CellInit /\ HeapIdle /\ BrowserIdle /\ StreamIdle

Next ==
    \/ Slice
    \/ MultiSlice
    \/ PointSlice
    \/ Drilldown
    \/ RollupDim
    \/ PublicCell

Spec == Init /\ [][Next]_vars

(***************************************************************************)
(* Cells built from lists of cuts, and their comparison.                   *)
(***************************************************************************)
\* most cuts of a list a Cell is built from
MaxCuts == 2

\* Cell(cuts): the new Cell becomes the current one, the one before it is
\* kept as prev
NewCell ==
    \E list \in SeqsUpTo(CutPool, MaxCuts) :
       /\ cell' = list
       /\ prev' = cell
       /\ op' = [name |-> "Cell"]
       /\ UNCHANGED <<nextId, undefined>>
       /\ UNCHANGED <<codecVars, heapVars, browserVars, streamVars>>

\* cell == prev
Equals ==
    /\ op' = [name |-> "__eq__", result |-> CellEq(cell, prev)]
    /\ UNCHANGED <<cell, prev, nextId, undefined>>
    /\ UNCHANGED <<codecVars, heapVars, browserVars, streamVars>>

EqNext ==
    \/ NewCell
    \/ Equals

SpecEq == Init /\ [][EqNext]_vars

(***************************************************************************)
(* Roll-up of Cells built from lists of cuts.                              *)
(***************************************************************************)
\* most dimensions one rollup call names
MaxNames == 2

\* the items of a mapping of up to MaxNames dimensions to levels; a level is
\* given by its position in the hierarchy
DictItems ==
    {items \in SeqsUpTo(Dimensions \X (1..MaxDepth), MaxNames) :
        \A i, j \in 1..Len(items) : i # j => items[i][1] # items[j][1]}

RollupSpecs ==
    {[t |-> "str", v |-> n] : n \in Dimensions}
    \cup {[t |-> "list", v |-> l] : l \in SeqsUpTo(Dimensions, MaxNames)}
    \cup {[t |-> "dict", v |-> items] : items \in DictItems}

\* cell.rollup(rollup): the Cell it returns becomes the current one
Rollup ==
    \E rollup_spec \in RollupSpecs :
       LET r == rollup(cell, rollup_spec, nextId)
       IN  /\ nextId < FirstFresh + MaxFresh
           /\ op' = [name |-> "rollup", rollup |-> rollup_spec, result |-> r]
           /\ prev' = cell
           /\ cell' = IF r.t = "cuts" THEN r.v ELSE cell
           /\ nextId' = IF r.t = "cuts" THEN nextId + Len(r.v) ELSE nextId
           /\ UNCHANGED undefined
           /\ UNCHANGED <<codecVars, heapVars, browserVars, streamVars>>

\* cell.drilldown(dimension, value).rollup_dim(dimension) == cell
DrilldownRollupDim ==
    \E dimension \in Dimensions, value \in Values :
       LET drilled == drilldown(cell, dimension, value, None, nextId)
           rolled == rollup_dim(drilled, dimension, None, None, nextId + 1)
       IN  /\ op' = [name |-> "drilldown.rollup_dim", dimension |-> dimension,
                     result |-> rolled, equal |-> CellEq(rolled, cell)]
           /\ UNCHANGED <<cell, prev, nextId, undefined>>
           /\ UNCHANGED <<codecVars, heapVars, browserVars, streamVars>>

RollupNext ==
    \/ NewCell
    \/ RollupDim
    \/ Rollup
    \/ DrilldownRollupDim

SpecRollup == Init /\ [][RollupNext]_vars

(***************************************************************************)
(* Cell objects.  heap.cells[c] is the list object the cuts attribute of   *)
(* Cell c refers to, heap.lists[l] the cuts that list object holds.  The   *)
(* lists and Cells an operation allocates and drops before it returns are  *)
(* not kept.                                                               *)
(***************************************************************************)
\* most Cell objects of one behaviour
MaxCells == 3

CellV(c) == [t |-> "cell", v |-> c]

\* self.cuts of Cell c
cuts_of(h, c) == h.lists[h.cells[c]]

\* Cell(cuts): Cell.__init__ stores list(cuts), a new list object
Cell(h, cuts) ==
    [cells |-> Append(h.cells, Len(h.lists) + 1),
     lists |-> Append(h.lists, cuts)]

\* copy.copy(self): a new Cell whose cuts attribute is the same list object
copy_copy(h, self) ==
    [cells |-> Append(h.cells, h.cells[self]), lists |-> h.lists]

\* the Cell the last allocation made
Newest(h) == CellV(Len(h.cells))

HeapInit ==
    heap \in {Cell([cells |-> <<>>, lists |-> <<>>], cuts) :
                 cuts \in SeqsUpTo(CutPool, MaxCuts)}

InitObj == CodecIdle /\ CellInit /\ HeapInit /\ BrowserIdle /\ StreamIdle

\* self & other
ObjAnd ==
    \E self \in 1..Len(heap.cells), other \in 1..Len(heap.cells) :
       /\ Len(heap.cells) < MaxCells
       /\ heap' = Cell(heap, __and__(cuts_of(heap, self), cuts_of(heap, other)))
       /\ op' = [name |-> "__and__", self |-> self, result |-> Newest(heap')]
       /\ UNCHANGED <<cell, prev, nextId, undefined>>
       /\ UNCHANGED <<codecVars, browserVars, streamVars>>

\* self.slice(cut)
ObjSlice ==
    \E self \in 1..Len(heap.cells), cut \in CutPool :
       /\ Len(heap.cells) < MaxCells
       /\ heap' = Cell(heap, slice(cuts_of(heap, self), cut))
       /\ op' = [name |-> "slice", self |-> self, result |-> Newest(heap')]
       /\ UNCHANGED <<cell, prev, nextId, undefined>>
       /\ UNCHANGED <<codecVars, browserVars, streamVars>>

\* self.multi_slice(cuts): the Cell of the last slice, self when cuts is empty
ObjMultiSlice ==
    \E self \in 1..Len(heap.cells), list \in SeqsUpTo(MultiPool, MaxMulti) :
       /\ Len(heap.cells) < MaxCells
       /\ IF list = <<>>
          THEN /\ heap' = heap
               /\ op' = [name |-> "multi_slice", self |-> self,
                         result |-> CellV(self)]
          ELSE /\ heap' = Cell(heap, multi_slice(cuts_of(heap, self), list))
               /\ op' = [name |-> "multi_slice", self |-> self,
                         result |-> Newest(heap')]
       /\ UNCHANGED <<cell, prev, nextId, undefined>>
       /\ UNCHANGED <<codecVars, browserVars, streamVars>>

\* self.point_slice(dimension, path)
ObjPointSlice ==
    \E self \in 1..Len(heap.cells), dimension \in Dimensions,
       path \in SeqsUpTo({<<"1">>}, MaxDepth) :
       /\ Len(heap.cells) < MaxCells
       /\ heap' = Cell(heap, point_slice(cuts_of(heap, self), dimension, path, nextId))
       /\ nextId' = IF path # <<>> THEN nextId + 1 ELSE nextId
       /\ op' = [name |-> "point_slice", self |-> self, result |-> Newest(heap')]
       /\ UNCHANGED <<cell, prev, undefined>>
       /\ UNCHANGED <<codecVars, browserVars, streamVars>>

\* self.drilldown(dimension, value)
ObjDrilldown ==
    \E self \in 1..Len(heap.cells), dimension \in Dimensions, value \in Values :
       /\ Len(heap.cells) < MaxCells
       /\ heap' = Cell(heap, drilldown(cuts_of(heap, self), dimension, value,
                                       None, nextId))
       /\ nextId' = nextId + 1
       /\ op' = [name |-> "drilldown", self |-> self, result |-> Newest(heap')]
       /\ UNCHANGED <<cell, prev, undefined>>
       /\ UNCHANGED <<codecVars, browserVars, streamVars>>

\* self.rollup_dim(dimension, level): copy.copy(self) when the dimension has
\* no PointCut
ObjRollupDim ==
    \E self \in 1..Len(heap.cells), dimension \in Dimensions,
       level \in {None} \cup {Some(k) : k \in 1..MaxDepth} :
       /\ Len(heap.cells) < MaxCells
       /\ IF IsNone(point_cut_for_dimension(cuts_of(heap, self), dimension))
          THEN /\ heap' = copy_copy(heap, self)
               /\ UNCHANGED nextId
          ELSE /\ heap' = Cell(heap, rollup_dim(cuts_of(heap, self), dimension,
                                                level, None, nextId))
               /\ nextId' = nextId + 1
       /\ op' = [name |-> "rollup_dim", self |-> self, result |-> Newest(heap')]
       /\ UNCHANGED <<cell, prev, undefined>>
       /\ UNCHANGED <<codecVars, browserVars, streamVars>>

\* self.rollup(rollup)
ObjRollup ==
    \E self \in 1..Len(heap.cells), rollup_spec \in RollupSpecs :
       LET r == rollup(cuts_of(heap, self), rollup_spec, nextId)
       IN  /\ Len(heap.cells) < MaxCells
           /\ IF r.t = "cuts"
              THEN /\ heap' = Cell(heap, r.v)
                   /\ nextId' = nextId + Len(r.v)
                   /\ op' = [name |-> "rollup", self |-> self,
                             result |-> Newest(heap')]
              ELSE /\ UNCHANGED <<heap, nextId>>
                   /\ op' = [name |-> "rollup", self |-> self, result |-> r]
           /\ UNCHANGED <<cell, prev, undefined>>
           /\ UNCHANGED <<codecVars, browserVars, streamVars>>

\* self.public_cell()
ObjPublicCell ==
    \E self \in 1..Len(heap.cells) :
       /\ Len(heap.cells) < MaxCells
       /\ heap' = Cell(heap, public_cell(cuts_of(heap, self)))
       /\ op' = [name |-> "public_cell", self |-> self, result |-> Newest(heap')]
       /\ UNCHANGED <<cell, prev, nextId, undefined>>
       /\ UNCHANGED <<codecVars, browserVars, streamVars>>

ObjNext ==
    \/ ObjAnd
    \/ ObjSlice
    \/ ObjMultiSlice
    \/ ObjPointSlice
    \/ ObjDrilldown
    \/ ObjRollupDim
    \/ ObjRollup
    \/ ObjPublicCell

SpecObj == InitObj /\ [][ObjNext]_vars

(***************************************************************************)
(* SQLBrowser.provide_aggregate.  A statement is the record of its         *)
(* clauses; the store is given by the number of groups the filtered and    *)
(* grouped drilldown statement of the call has when it is not paginated.   *)
(***************************************************************************)
\* most groups of a drilldown
MaxGroups == 3
\* highest page index
MaxPage == 1
\* largest page size
MaxPageSize == 2

\* the letters str.lower() maps
UpperCase == <<"A", "B", "C", "D", "E", "F", "G", "H", "I", "J", "K", "L", "M",
               "N", "O", "P", "Q", "R", "S", "T", "U", "V", "W", "X", "Y", "Z">>
LowerCase == <<"a", "b", "c", "d", "e", "f", "g", "h", "i", "j", "k", "l", "m",
               "n", "o", "p", "q", "r", "s", "t", "u", "v", "w", "x", "y", "z">>

\* a str compared as it is
lower_not(s) == s

\* str.lower()
lower(s) ==
    [i \in 1..Len(s) |->
        IF \E k \in 1..Len(UpperCase) : UpperCase[k] = s[i]
        THEN LowerCase[CHOOSE k \in 1..Len(UpperCase) : UpperCase[k] = s[i]]
        ELSE s[i]]

\* the label of the boolean column of a split cell
SPLIT_COLUMN == "__within_split__"

\* aggregates: with a registered function, with its name in upper case, with
\* neither function nor expression, with an expression, with a function that
\* is not registered
AggSum == [name |-> "amount_sum", function |-> Some(<<"s", "u", "m">>),
           expression |-> None]
AggSumUpper == [name |-> "amount_SUM", function |-> Some(<<"S", "U", "M">>),
                expression |-> None]
AggNothing == [name |-> "amount_x", function |-> None, expression |-> None]
AggExpression == [name |-> "amount_e", function |-> None,
                  expression |-> Some(<<"e">>)]
AggUnknown == [name |-> "amount_u", function |-> Some(<<"n", "o">>),
               expression |-> None]

\* the aggregate functions the registry holds, by their names
available_aggregate_functions ==
    {<<"s", "u", "m">>, <<"c", "o", "u", "n", "t">>, <<"m", "i", "n">>,
     <<"m", "a", "x">>, <<"a", "v", "g">>}

\* a registry that has a function of every name
get_any_function(function_name) == Some(function_name)

\* get_aggregate_function(name): the function, or None
get_aggregate_function(function_name) ==
    IF function_name \in available_aggregate_functions
    THEN Some(function_name) ELSE None

\* SQLBrowser.aggregate_column: the labelled aggregate expression
aggregate_column(aggregate) ==
    IF ~(Truthy(aggregate.expression) \/ Truthy(aggregate.function))
    THEN Raise("ModelError", aggregate.name)
    ELSE IF Truthy(aggregate.expression)
    THEN Raise("NotImplementedError", "Expressions are not yet implemented")
    ELSE LET function_name == lower(aggregate.function[1])
             function == get_aggregate_function(function_name)
         IN  IF IsNone(function)
             THEN Raise("NotImplementedError", "I don't know what to do")
             ELSE [t |-> "column", v |-> aggregate.name]

\* [self.aggregate_column(aggr) for aggr in aggregates]: the columns, or what
\* the first failing aggregate raised
RECURSIVE aggregate_cols(_)
aggregate_cols(aggregates) ==
    IF aggregates = <<>> THEN [t |-> "columns", v |-> <<>>]
    ELSE LET col == aggregate_column(Head(aggregates))
             rest == aggregate_cols(Tail(aggregates))
         IN  IF col.t = "error" THEN col
             ELSE IF rest.t = "error" THEN rest
             ELSE [t |-> "columns", v |-> <<col.v>> \o rest.v]

\* the attributes of a drilldown without repetition, in the order of their
\* first occurrence (set(drilldown.all_attributes); the order is not used)
RECURSIVE all_attributes(_)
all_attributes(items) ==
    IF items = <<>> THEN <<>>
    ELSE LET rest == all_attributes(SubSeq(items, 1, Len(items) - 1))
             last == items[Len(items)].attr
         IN  IF \E i \in 1..Len(rest) : rest[i] = last THEN rest
             ELSE Append(rest, last)

\* SQLBrowser.aggregation_statement
aggregation_statement(cell_cuts, aggregates, items, split, for_summary, across) ==
    LET grouping == all_attributes(items)
            \o (IF ~IsNone(split) THEN <<SPLIT_COLUMN>> ELSE <<>>)
        cols == aggregate_cols(aggregates)
    IN  IF across
        THEN Raise("NotImplementedError", "Drill-across is not yet implemented")
        ELSE IF aggregates = <<>>
        THEN Raise("ArgumentError", "List of aggregates sohuld not be empty")
        ELSE IF cols.t = "error" THEN cols
        ELSE [t |-> "statement",
              v |-> [selection |-> IF for_summary THEN cols.v
                                   ELSE grouping \o cols.v,
                     whereclause |-> cell_cuts,
                     group_by |-> IF for_summary THEN None ELSE Some(grouping),
                     offset |-> None,
                     limit |-> None,
                     count |-> FALSE]]

\* paginate_query(statement, page, page_size)
paginate_query(statement, page, page_size) ==
    IF ~IsNone(page) /\ ~IsNone(page_size)
    THEN [statement EXCEPT !.offset = Some(page[1] * page_size[1]),
                           !.limit = Some(page_size[1])]
    ELSE statement

\* statement.alias().count(): the number of rows of the statement
count_statement(statement) == [statement EXCEPT !.count = TRUE]

Min(a, b) == IF a <= b THEN a ELSE b
Max(a, b) == IF a >= b THEN a ELSE b

\* the number of rows the store returns for a statement of the call: one for
\* a statement without GROUP BY, and the groups left by OFFSET and LIMIT
Rows(statement, groups) ==
    IF IsNone(statement.group_by) THEN 1
    ELSE LET after == IF IsNone(statement.offset) THEN groups
                      ELSE Max(0, groups - statement.offset[1])
         IN  IF IsNone(statement.limit) THEN after
             ELSE Min(after, statement.limit[1])

\* AggregationBrowser.assert_low_cardinality: the drilldown has no level of
\* high cardinality that the cell does not cut
low_cardinality(items) == \A i \in 1..Len(items) : ~items[i].high

\* a summary with every call
summary_always(include_summary, items, split) == TRUE

\* `self.include_summary or not (drilldown or split)`
summary_requested(include_summary, items, split) ==
    include_summary \/ ~(items # <<>> \/ ~IsNone(split))

\* `not (page_size and page is not None)`
unpaginated(page, page_size) ==
    ~((~IsNone(page_size) /\ page_size[1] # 0) /\ ~IsNone(page))

\* AggregationResult(cell=cell, aggregates=aggregates)
AggregationResult(cell_cuts, aggregates) ==
    [t |-> "result",
     v |-> [cell |-> cell_cuts, aggregates |-> aggregates, summary |-> None,
            levels |-> None, cells |-> None, labels |-> None,
            total_cell_count |-> None, exclude_if_null |-> None]]

\* the arguments of the calls
AggregateLists ==
    {<<>>, <<AggSum>>, <<AggSumUpper>>, <<AggSum, AggNothing>>, <<AggExpression>>,
     <<AggUnknown>>, <<AggSum, AggUnknown>>}
Year == [attr |-> "year", high |-> FALSE]
Item == [attr |-> "item", high |-> TRUE]
Drilldowns == {<<>>, <<Year>>, <<Year, Item>>}
Splits == {None, Some(<<CHOOSE c \in CutPool : c.oid = 1>>)}
Pages == {None} \cup {Some(n) : n \in 0..MaxPage}
PageSizes == {None} \cup {Some(n) : n \in 0..MaxPageSize}

\* a browser constructed with its options
BrowserInit ==
    /\ browser \in [include_summary : BOOLEAN, include_cell_count : BOOLEAN,
                    exclude_null_agregates : {TRUE}]
    /\ call = NoCall
    /\ executed = <<>>
    /\ result = NoCall
    /\ at = "idle"

InitBrowser == CodecIdle /\ CellIdle /\ HeapIdle /\ BrowserInit /\ StreamIdle

\* self.execute(statement, label)
execute(statement, label) == Append(executed, [label |-> label, statement |-> statement])

\* provide_aggregate is called: up to the creation of the result
ProvideAggregate ==
    \E aggregates \in AggregateLists, drilldown_items \in Drilldowns,
       split \in Splits, page \in Pages, page_size \in PageSizes,
       across \in BOOLEAN, groups \in 0..MaxGroups :
       /\ at = "idle"
       /\ call' = [t |-> "call",
                   v |-> [cell |-> <<>>, aggregates |-> aggregates,
                          drilldown |-> drilldown_items, split |-> split,
                          page |-> page, page_size |-> page_size,
                          across |-> across, groups |-> groups]]
       /\ IF across
          THEN /\ result' = Raise("NotImplementedError",
                                  "Drill-across is not yet implemented")
               /\ at' = "raised"
          ELSE /\ result' = AggregationResult(<<>>, aggregates)
               /\ at' = "summary"
       /\ UNCHANGED <<browser, executed>>
       /\ UNCHANGED <<codecVars, cellVars, heapVars, streamVars>>

\* the summary part
Summary ==
    /\ at = "summary"
    /\ IF summary_requested(browser.include_summary, call.v.drilldown, call.v.split)
       THEN LET statement == aggregation_statement(call.v.cell, call.v.aggregates,
                                                   call.v.drilldown, None, TRUE,
                                                   FALSE)
            IN  IF statement.t = "error"
                THEN /\ result' = statement
                     /\ at' = "raised"
                     /\ UNCHANGED executed
                ELSE /\ executed' = execute(statement.v, "aggregation summary")
                     /\ result' = [result EXCEPT
                                      !.v.summary = Some(statement.v.selection)]
                     /\ at' = "drilldown"
       ELSE /\ at' = "drilldown"
            /\ UNCHANGED <<executed, result>>
    /\ UNCHANGED <<browser, call>>
    /\ UNCHANGED <<codecVars, cellVars, heapVars, streamVars>>

\* the drilldown part up to result.labels
DrilldownQuery ==
    /\ at = "drilldown"
    /\ IF call.v.drilldown # <<>> \/ ~IsNone(call.v.split)
       THEN LET statement == aggregation_statement(call.v.cell, call.v.aggregates,
                                                   call.v.drilldown, None, FALSE,
                                                   FALSE)
            IN  IF /\ unpaginated(call.v.page, call.v.page_size)
                   /\ ~low_cardinality(call.v.drilldown)
                THEN /\ result' = Raise("ArgumentError", "high cardinality")
                     /\ at' = "raised"
                     /\ UNCHANGED executed
                ELSE IF statement.t = "error"
                THEN /\ result' = statement
                     /\ at' = "raised"
                     /\ UNCHANGED executed
                ELSE LET paginated == paginate_query(statement.v, call.v.page,
                                                     call.v.page_size)
                     IN  /\ executed' = execute(paginated, "aggregation drilldown")
                         /\ result' = [result EXCEPT
                               !.v.levels = Some([drilldown |-> call.v.drilldown,
                                                  include_split |-> ~IsNone(call.v.split)]),
                               !.v.cells = Some(Rows(paginated, call.v.groups)),
                               !.v.labels = Some(paginated.selection)]
                         /\ at' = "count"
       ELSE /\ at' = "finish"
            /\ UNCHANGED <<executed, result>>
    /\ UNCHANGED <<browser, call>>
    /\ UNCHANGED <<codecVars, cellVars, heapVars, streamVars>>

\* the cell count of the drilldown part
CellCount ==
    /\ at = "count"
    /\ IF browser.include_cell_count
       THEN LET statement == executed[Len(executed)].statement
            IN  /\ executed' = execute(count_statement(statement), "")
                /\ result' = [result EXCEPT
                      !.v.total_cell_count = Some(Rows(statement, call.v.groups))]
       ELSE UNCHANGED <<executed, result>>
    /\ at' = "finish"
    /\ UNCHANGED <<browser, call>>
    /\ UNCHANGED <<codecVars, cellVars, heapVars, streamVars>>

\* the end of provide_aggregate; the post-aggregation calculators are not
\* part of the model (no aggregate of the calls has one)
Return ==
    /\ at = "finish"
    /\ result' = IF ~IsNone(result.v.cells) /\ browser.exclude_null_agregates
                 THEN LET builtin(agg) ==
                              \/ IsNone(agg.function)
                              \/ agg.function[1] \in available_aggregate_functions
                          aggregates == SelectSeq(call.v.aggregates, builtin)
                      IN  [result EXCEPT !.v.exclude_if_null =
                              Some([i \in 1..Len(aggregates) |->
                                       aggregates[i].name])]
                 ELSE result
    /\ at' = "returned"
    /\ UNCHANGED <<browser, call, executed>>
    /\ UNCHANGED <<codecVars, cellVars, heapVars, streamVars>>

BrowserNext ==
    \/ ProvideAggregate
    \/ Summary
    \/ DrilldownQuery
    \/ CellCount
    \/ Return

SpecBrowser == InitBrowser /\ [][BrowserNext]_vars

(***************************************************************************)
(* Claims about Cell.                                                      *)
(***************************************************************************)
\* C8: Cell equality is order-independent set equality of the cuts:
\* Cell(xs) == Cell(ys) exactly when every cut of xs equals some cut of ys and
\* every cut of ys equals some cut of xs.
C8_CellEqIsSetEquality ==
    op.name = "__eq__"
        => (op.result <=> /\ \A i \in 1..Len(cell) : CutIn(cell[i], prev)
                          /\ \A j \in 1..Len(prev) : CutIn(prev[j], cell))

\* C9: cell.slice(cut) replaces the first cut of cut.dimension by cut at the
\* same position and keeps every other cut, later cuts of that dimension
\* too, unchanged and in order; with no cut of that dimension the result is
\* the receiver's cuts followed by cut.
C9_SliceReplacesFirst ==
    op.name = "slice"
        => LET same == {i \in 1..Len(prev) : prev[i].dimension = op.cut.dimension}
           IN  IF same = {}
               THEN cell = prev \o <<op.cut>>
               ELSE /\ Len(cell) = Len(prev)
                    /\ \A i \in 1..Len(prev) :
                          cell[i] = IF i \in same /\ \A j \in same : i <= j
                                    THEN op.cut ELSE prev[i]

\* a slice has replaced the first of two cuts of the dimension
C9_Witness ==
    /\ op.name = "slice"
    /\ Len(prev) >= 2
    /\ \E i, j \in 1..Len(prev) :
          /\ i < j
          /\ prev[i].dimension = op.cut.dimension
          /\ prev[j].dimension = op.cut.dimension
          /\ cell[i] = op.cut
          /\ cell[j] = prev[j]
          /\ prev[i] # op.cut

AtMostOneCutPerDimension(cuts) ==
    \A i, j \in 1..Len(cuts) : i # j => cuts[i].dimension # cuts[j].dimension

\* C10, as claimed: after any sequence of slice, multi_slice, point_slice,
\* drilldown, rollup_dim and public_cell from the empty cell, the cell holds
\* at most one cut per dimension.
C10_AtMostOneCutPerDimension == AtMostOneCutPerDimension(cell)

\* C10, amended: the cell holds at most one cut per dimension as long as
\* drilldown was applied only to dimensions that had no cut or a PointCut.
C10_OneCutPerDimensionWhenDefined ==
    ~undefined => AtMostOneCutPerDimension(cell)

\* a drilldown within its precondition, on a cell that holds a cut that is
\* not a PointCut for the other dimension
C10_Witness ==
    /\ ~undefined
    /\ op.name = "drilldown"
    /\ Len(cell) = 2
    /\ \E i \in 1..Len(cell) : cell[i].kind # "point"
    /\ Len(cell[Len(cell)].path) = 2

\* the cuts of the dimension in the list of cuts
CutsOf(cuts, dimension) ==
    {i \in 1..Len(cuts) : cuts[i].dimension = dimension}

\* the dimension has exactly one cut in cuts, and it is a PointCut
HasOnePointCut(cuts, dimension) ==
    /\ Cardinality(CutsOf(cuts, dimension)) = 1
    /\ \A i \in CutsOf(cuts, dimension) : cuts[i].kind = "point"

\* the PointCut of a dimension that has exactly one cut
ThePointCut(cuts, dimension) ==
    cuts[CHOOSE i \in CutsOf(cuts, dimension) : TRUE]

\* C12: drilldown followed by roll-up is the identity: for every cell, every
\* dimension d that has no cut or a PointCut (inverted or not) in the cell and
\* every value v, cell.drilldown(d, v).rollup_dim(d) == cell.
C12_DrilldownRollupIsIdentity ==
    (/\ op.name = "drilldown.rollup_dim"
     /\ \/ CutsOf(cell, op.dimension) = {}
        \/ HasOnePointCut(cell, op.dimension))
        => op.equal

\* the names a rollup call with a name or a list of names gives
NamesOf(rollup_spec) ==
    IF rollup_spec.t = "str" THEN {rollup_spec.v}
    ELSE {rollup_spec.v[i] : i \in 1..Len(rollup_spec.v)}

\* C13: rolling up a dimension whose PointCut has a one-element path, with
\* rollup_dim or with rollup naming the dimension, returns a cell with no cut
\* for the dimension; no roll-up result holds a PointCut with an empty path.
C13_TopLevelRollupDropsCut ==
    /\ (/\ op.name = "rollup_dim"
        /\ IsNone(op.level)
        /\ HasOnePointCut(prev, op.dimension)
        /\ Len(ThePointCut(prev, op.dimension).path) = 1)
           => CutsOf(cell, op.dimension) = {}
    /\ op.name = "rollup" /\ op.rollup.t \in {"str", "list"}
           => \A d \in NamesOf(op.rollup) :
                 (/\ HasOnePointCut(prev, d)
                  /\ Len(ThePointCut(prev, d).path) = 1)
                     => /\ op.result.t = "cuts"
                        /\ CutsOf(op.result.v, d) = {}
    /\ op.name \in {"rollup_dim", "rollup"}
           => \A i \in 1..Len(cell) :
                 cell[i].kind = "point" => cell[i].path # <<>>

\* C14: cell.rollup(spec) with spec a name or a list of names fails with a
\* not-supported error if a named dimension's cut is a RangeCut or SetCut, and
\* otherwise succeeds and holds, for each named dimension with a PointCut, that
\* dimension's PointCut with the path shortened by one level.
C14_RollupByNames ==
    op.name = "rollup" /\ op.rollup.t \in {"str", "list"}
        => LET named == {d \in NamesOf(op.rollup) : CutsOf(prev, d) # {}}
           IN  IF \E d \in named : ~HasOnePointCut(prev, d)
               THEN /\ op.result.t = "error"
                    /\ op.result.v.exc = "NotImplementedError"
               ELSE /\ op.result.t = "cuts"
                    /\ \A d \in named :
                          LET path == ThePointCut(prev, d).path
                          IN  Len(path) > 1
                                 => \E i \in CutsOf(op.result.v, d) :
                                       /\ op.result.v[i].kind = "point"
                                       /\ op.result.v[i].path
                                             = SubSeq(path, 1, Len(path) - 1)

\* C15: cell.rollup(spec) with spec a mapping dimension -> level succeeds for
\* dimensions that have a PointCut, and each such cut's path is rolled up to
\* the named level; it does not fail with an 'unknown type' argument error.
C15_RollupByMapping ==
    (/\ op.name = "rollup"
     /\ op.rollup.t = "dict"
     /\ \A k \in 1..Len(op.rollup.v) : HasOnePointCut(prev, op.rollup.v[k][1]))
        => /\ op.result.t = "cuts"
           /\ \A k \in 1..Len(op.rollup.v) :
                 LET d == op.rollup.v[k][1]
                     path == hierarchy_rollup(ThePointCut(prev, d).path,
                                              Some(op.rollup.v[k][2]))
                 IN  path # <<>>
                        => \E i \in CutsOf(op.result.v, d) :
                              /\ op.result.v[i].kind = "point"
                              /\ op.result.v[i].path = path

\* C16: in cell.rollup(spec), a named dimension that has no cut in the cell
\* is skipped without error when spec is a list (the call succeeds for the
\* other names, whose cuts are PointCuts), and makes the call raise when spec
\* is a mapping.
C16_RollupOfMissingDimension ==
    /\ (/\ op.name = "rollup"
        /\ op.rollup.t = "list"
        /\ \E d \in NamesOf(op.rollup) : CutsOf(prev, d) = {}
        /\ \A d \in NamesOf(op.rollup) :
              CutsOf(prev, d) = {} \/ HasOnePointCut(prev, d))
           => op.result.t = "cuts"
    /\ (/\ op.name = "rollup"
        /\ op.rollup.t = "dict"
        /\ \E k \in 1..Len(op.rollup.v) : CutsOf(prev, op.rollup.v[k][1]) = {})
           => op.result.t = "error"

\* every Cell of the heap keeps its cuts, each with its path and flags, in
\* the step
ReceiversUnchanged ==
    \A c \in 1..Len(heap.cells) :
       /\ c \in 1..Len(heap'.cells)
       /\ cuts_of(heap', c) = cuts_of(heap, c)

\* the step returned a Cell object that did not exist before it
ReturnsNewCell ==
    op'.result.t = "cell" => op'.result.v \notin 1..Len(heap.cells)

\* C11: every Cell operation (conjunction, slice, multi_slice, point_slice,
\* drilldown, rollup_dim, rollup, public_cell) returns a new Cell object and
\* leaves the receiver unchanged: the cut sequence of every existing Cell, and
\* the path and flags of each of its cuts, are the same after it as before.
C11_OperationsReturnNewCell ==
    [][ReturnsNewCell /\ ReceiversUnchanged]_vars

\* the frame half of C11 alone
C11_ReceiversUnchanged == [][ReceiversUnchanged]_vars

(***************************************************************************)
(* Claims about provide_aggregate.                                         *)
(***************************************************************************)
\* what an executed statement is: the count of a statement, a statement
\* without GROUP BY, or a grouped statement
KindOf(statement) ==
    IF statement.count THEN "count"
    ELSE IF IsNone(statement.group_by) THEN "summary"
    ELSE "drilldown"

ExecutedKinds == [i \in 1..Len(executed) |-> KindOf(executed[i].statement)]

\* the call has raised the error of the cardinality guard
GuardRejected ==
    /\ at = "raised"
    /\ result.t = "error"
    /\ result.v.exc = "ArgumentError"
    /\ result.v.text = "high cardinality"

\* C17: when a drilldown is requested without pagination (page is None or
\* page_size is missing) and the cardinality guard rejects it, the call fails
\* before any query has been executed, for every setting of include_summary.
C17_GuardBeforeAnyQuery ==
    (/\ GuardRejected
     /\ call.v.drilldown # <<>>
     /\ IsNone(call.v.page) \/ IsNone(call.v.page_size))
        => executed = <<>>

\* whether the call has a drilldown or a split
Grouped == call.v.drilldown # <<>> \/ ~IsNone(call.v.split)

\* the queries of the call in the claimed order
ExpectedKinds ==
    (IF browser.include_summary \/ ~Grouped THEN <<"summary">> ELSE <<>>)
    \o (IF Grouped THEN <<"drilldown">> ELSE <<>>)
    \o (IF Grouped /\ browser.include_cell_count THEN <<"count">> ELSE <<>>)

IsPrefix(a, b) == Len(a) <= Len(b) /\ a = SubSeq(b, 1, Len(a))

C19_TotalCellCount ==
    (/\ at \in {"finish", "returned"}
     /\ browser.include_cell_count
     /\ IsNone(call.v.page_size) \/ call.v.page_size[1] >= 1
     /\ \E i \in 1..Len(executed) : KindOf(executed[i].statement) = "drilldown")
        => result.v.total_cell_count = Some(call.v.groups)

\* the elements of a sequence
Range(seq) == {seq[i] : i \in 1..Len(seq)}

\* C20: when a split cell is supplied, the drilldown query the call executes
\* has the split's boolean column in its selection list and in its GROUP BY,
\* next to the drilldown's grouping columns and the aggregate expressions.
C20_SplitColumn ==
    \A i \in 1..Len(executed) :
       (/\ KindOf(executed[i].statement) = "drilldown"
        /\ ~IsNone(call.v.split))
           => /\ SPLIT_COLUMN \in Range(executed[i].statement.selection)
              /\ SPLIT_COLUMN \in Range(executed[i].statement.group_by[1])
              /\ \A k \in 1..Len(call.v.drilldown) :
                    /\ call.v.drilldown[k].attr
                          \in Range(executed[i].statement.selection)
                    /\ call.v.drilldown[k].attr
                          \in Range(executed[i].statement.group_by[1])
              /\ \A k \in 1..Len(call.v.aggregates) :
                    call.v.aggregates[k].name
                       \in Range(executed[i].statement.selection)

\* C27: Cell equality is symmetric: a == b exactly when b == a, also for
\* cells that hold equal cuts more than once.
C27_CellEqSymmetric ==
    op.name = "__eq__" => (op.result <=> CellEq(prev, cell))

\* C28: cell.rollup(spec) changes only the named dimensions: every cut of the
\* receiver whose dimension spec does not name is a cut of the cell returned.
C28_RollupKeepsOtherDimensions ==
    (op.name = "rollup" /\ op.result.t = "cuts")
        => \A i \in 1..Len(prev) :
              prev[i].dimension \notin NamesOf(op.rollup)
                 => CutIn(prev[i], op.result.v)

(***************************************************************************)
(* Depths of the cuts of a Cell.                                           *)
(***************************************************************************)
IntV(n) == [t |-> "int", v |-> n]
NoneV == [t |-> "None", v |-> <<>>]
ListV(l) == [t |-> "list", v |-> l]
DictV(items) == [t |-> "dict", v |-> items]

\* max([len(path) for path in paths]) of a non-empty list of paths
RECURSIVE max_len(_)
max_len(paths) ==
    IF Len(paths) = 1 THEN Len(paths[1])
    ELSE Max(Len(paths[1]), max_len(Tail(paths)))

\* PointCut.level_depth, RangeCut.level_depth, SetCut.level_depth.  The
\* if/elif chain of RangeCut.level_depth has no else: with neither endpoint
\* the function falls off its end and returns None.
level_depth(cut) ==
    IF cut.kind = "point" THEN IntV(Len(cut.path))
    ELSE IF cut.kind = "range"
    THEN IF Truthy(cut.from_path) /\ ~Truthy(cut.to_path)
         THEN IntV(Len(cut.from_path[1]))
         ELSE IF ~Truthy(cut.from_path) /\ Truthy(cut.to_path)
         THEN IntV(Len(cut.to_path[1]))
         ELSE IF Truthy(cut.from_path) /\ Truthy(cut.to_path)
         THEN IntV(Max(Len(cut.from_path[1]), Len(cut.to_path[1])))
         ELSE NoneV
    ELSE IF cut.paths = <<>>
         THEN Raise("ValueError", <<"max() arg is an empty sequence">>)
         ELSE IntV(max_len(cut.paths))

\* depths.get(dim_name, 0) of the dict kept as its items in insertion order
depths_get(items, dim_name) ==
    LET at_ == {i \in 1..Len(items) : items[i][1] = dim_name}
    IN  IF at_ = {} THEN 0 ELSE items[CHOOSE i \in at_ : TRUE][2]

\* depths[dim_name] = value
depths_set(items, dim_name, value) ==
    IF \E i \in 1..Len(items) : items[i][1] = dim_name
    THEN [i \in 1..Len(items) |->
             IF items[i][1] = dim_name THEN <<dim_name, value>> ELSE items[i]]
    ELSE Append(items, <<dim_name, value>>)

\* Cell.level_depths, the loop over the cuts from cut i on
RECURSIVE level_depths_loop(_, _, _)
level_depths_loop(cuts, i, depths) ==
    IF i > Len(cuts) THEN DictV(depths)
    ELSE LET depth == level_depth(cuts[i])
             dim_name == cuts[i].dimension
         IN  IF depth.t = "error" THEN depth
             \* max(None, int)
             ELSE IF depth.t = "None"
             THEN Raise("TypeError", <<"'>' not supported between int and NoneType">>)
             ELSE level_depths_loop(cuts, i + 1,
                     depths_set(depths, dim_name,
                                Max(depth.v, depths_get(depths, dim_name))))

level_depths(cuts) == level_depths_loop(cuts, 1, <<>>)

\* Cell.deepest_levels, the loop over the cuts from cut i on.  item is the
\* local of the function: None while it is unbound, and it keeps its value
\* from one round of the loop to the next.  A level is given by its position
\* in hier.levels, a hierarchy by the name the cut holds.
RECURSIVE deepest_levels_loop(_, _, _, _, _)
deepest_levels_loop(cuts, include_empty, i, item, levels) ==
    IF i > Len(cuts) THEN ListV(levels)
    ELSE LET depth == level_depth(cuts[i])
             dim == cuts[i].dimension
             hier == cuts[i].hierarchy
             new_item == IF depth.t = "int" /\ depth.v # 0
                         THEN Some(<<dim, hier, Some(depth.v)>>)
                         ELSE IF include_empty
                         THEN Some(<<dim, hier, None>>)
                         ELSE item
         IN  IF depth.t = "error" THEN depth
             ELSE IF IsNone(new_item) THEN UnboundLocalError("item")
             ELSE deepest_levels_loop(cuts, include_empty, i + 1, new_item,
                                      Append(levels, new_item[1]))

deepest_levels(cuts, include_empty) ==
    deepest_levels_loop(cuts, include_empty, 1, None, <<>>)

\* the cuts the cells of this part are built from: with and without path
\* data
DepthPool ==
    {PointCut(<<"d">>, <<>>, None, FALSE, FALSE, 1),
     PointCut(<<"d">>, <<<<"1">>>>, None, FALSE, FALSE, 2),
     PointCut(<<"e">>, <<<<"1">>, <<"2">>>>, Some(Hier), FALSE, FALSE, 3),
     RangeCut(<<"d">>, None, None, None, FALSE, FALSE, 4),
     RangeCut(<<"d">>, Some(<<<<"1">>>>), None, None, FALSE, FALSE, 5),
     RangeCut(<<"e">>, Some(<<<<"1">>>>), Some(<<<<"1">>, <<"2">>>>), None,
              FALSE, FALSE, 6),
     RangeCut(<<"e">>, Some(<<>>), Some(<<<<"2">>>>), None, FALSE, FALSE, 7),
     SetCut(<<"e">>, <<<<<<"1">>>>, <<<<"1">>, <<"2">>>>>>, None, FALSE, FALSE, 8),
     SetCut(<<"d">>, <<>>, None, FALSE, FALSE, 9)}

\* Cell(cuts)
NewDepthCell ==
    \E list \in SeqsUpTo(DepthPool, MaxCuts) :
       /\ cell' = list
       /\ prev' = cell
       /\ op' = [name |-> "Cell"]
       /\ UNCHANGED <<nextId, undefined>>
       /\ UNCHANGED <<codecVars, heapVars, browserVars, streamVars>>

\* cell.level_depths()
LevelDepths ==
    /\ op' = [name |-> "level_depths", result |-> level_depths(cell)]
    /\ UNCHANGED <<cell, prev, nextId, undefined>>
    /\ UNCHANGED <<codecVars, heapVars, browserVars, streamVars>>

\* cell.deepest_levels(include_empty)
DeepestLevels ==
    \E include_empty \in BOOLEAN :
       /\ op' = [name |-> "deepest_levels", include_empty |-> include_empty,
                 result |-> deepest_levels(cell, include_empty)]
       /\ UNCHANGED <<cell, prev, nextId, undefined>>
       /\ UNCHANGED <<codecVars, heapVars, browserVars, streamVars>>

DepthNext ==
    \/ NewDepthCell
    \/ LevelDepths
    \/ DeepestLevels

SpecDepth == Init /\ [][DepthNext]_vars

\* the depth of a cut: the length of a PointCut's path, of the longest path
\* of a SetCut, and the larger length of the endpoints of a RangeCut, an
\* absent endpoint counting 0
LenOpt(o) == IF IsNone(o) THEN 0 ELSE Len(o[1])
DepthOf(cut) ==
    IF cut.kind = "point" THEN Len(cut.path)
    ELSE IF cut.kind = "range"
    THEN Max(LenOpt(cut.from_path), LenOpt(cut.to_path))
    ELSE IF cut.paths = <<>> THEN 0 ELSE max_len(cut.paths)

\* every SetCut of the cell has a path
SetCutsHavePaths(cuts) ==
    \A i \in 1..Len(cuts) : cuts[i].kind = "set" => cuts[i].paths # <<>>

\* the triples of the cuts from cut i on: those of depth >= 1, and with
\* include_empty those of depth 0 with level None
RECURSIVE TriplesFrom(_, _, _)
TriplesFrom(cuts, include_empty, i) ==
    IF i > Len(cuts) THEN <<>>
    ELSE LET c == cuts[i]
             rest == TriplesFrom(cuts, include_empty, i + 1)
         IN  IF DepthOf(c) >= 1
             THEN <<(<<c.dimension, c.hierarchy, Some(DepthOf(c))>>)>> \o rest
             ELSE IF include_empty
             THEN <<(<<c.dimension, c.hierarchy, None>>)>> \o rest
             ELSE rest

\* C25: deepest_levels(include_empty=False) returns, in order, one triple per
\* cut of depth >= 1 and nothing for a cut with an empty path, without error
\* and without repeating the triple of the cut before; with include_empty=True
\* a cut with an empty path gives a triple with level None.
C25_DeepestLevels ==
    (op.name = "deepest_levels" /\ SetCutsHavePaths(cell))
        => /\ op.result.t = "list"
           /\ op.result.v = TriplesFrom(cell, op.include_empty, 1)

\* C26: level_depths returns, for every dimension that has a cut, the largest
\* depth of its cuts, and nothing for the other dimensions; a RangeCut without
\* endpoints has depth 0 and does not make the call fail.
C26_LevelDepths ==
    (op.name = "level_depths" /\ SetCutsHavePaths(cell))
        => /\ op.result.t = "dict"
           /\ {op.result.v[k][1] : k \in 1..Len(op.result.v)}
                 = {cell[i].dimension : i \in 1..Len(cell)}
           /\ \A k \in 1..Len(op.result.v) :
                 /\ \A i \in CutsOf(cell, op.result.v[k][1]) :
                       DepthOf(cell[i]) <= op.result.v[k][2]
                 /\ \E i \in CutsOf(cell, op.result.v[k][1]) :
                       DepthOf(cell[i]) = op.result.v[k][2]

(***************************************************************************)
(* Cuts as dictionaries.  A dictionary is a function from its keys to      *)
(* their values; str values are sequences of characters.                   *)
(***************************************************************************)
DescV(d) == [t |-> "dict", v |-> d]

TypePoint == <<"p", "o", "i", "n", "t">>
TypeRange == <<"r", "a", "n", "g", "e">>
TypeSet == <<"s", "e", "t">>

\* Cut.to_dict and its overrides in PointCut, RangeCut and SetCut
to_dict(cut) ==
    LET depth == level_depth(cut)
        d == [type |-> None,
              dimension |-> cut.dimension,
              hierarchy |-> IF Truthy(cut.hierarchy) THEN cut.hierarchy ELSE None,
              level_depth |-> depth,
              invert |-> cut.invert,
              hidden |-> cut.hidden]
    IN  IF depth.t = "error" THEN depth
        ELSE IF cut.kind = "point"
        THEN DescV([k \in DOMAIN d \cup {"path"} |->
                       IF k = "type" THEN Some(TypePoint)
                       ELSE IF k = "path" THEN cut.path
                       ELSE d[k]])
        ELSE IF cut.kind = "range"
        THEN DescV([k \in DOMAIN d \cup {"from", "to"} |->
                       IF k = "type" THEN Some(TypeRange)
                       ELSE IF k = "from" THEN cut.from_path
                       ELSE IF k = "to" THEN cut.to_path
                       ELSE d[k]])
        ELSE DescV([k \in DOMAIN d \cup {"paths"} |->
                       IF k = "type" THEN Some(TypeSet)
                       ELSE IF k = "paths" THEN cut.paths
                       ELSE d[k]])

\* desc.get(key, default)
desc_get(desc, key, default) ==
    IF key \in DOMAIN desc THEN desc[key] ELSE default

\* cube.dimension(dim): the dimension of that name, which a cut holds by its
\* name
cube_dimension(dim) == dim

\* cut_from_dict(desc, cube); with_cube is whether a cube is given.  A path entry
\* the dictionary does not have is read as the empty value of its place.
cut_from_dict(desc, with_cube) ==
    IF "type" \notin DOMAIN desc THEN Raise("KeyError", <<"type">>)
    \* None.lower()
    ELSE IF IsNone(desc["type"]) THEN Raise("AttributeError", <<"lower">>)
    ELSE
    LET cut_type == lower(desc["type"][1])
        name == desc_get(desc, "dimension", <<>>)
        dim == IF name # <<>> /\ with_cube THEN cube_dimension(name) ELSE name
    IN  IF cut_type = TypePoint
        THEN CutV(PointCut(dim, desc_get(desc, "path", <<>>),
                           desc_get(desc, "hierarchy", None),
                           desc_get(desc, "invert", FALSE), FALSE, 0))
        ELSE IF cut_type = TypeSet
        THEN CutV(SetCut(dim, desc_get(desc, "paths", <<>>),
                         desc_get(desc, "hierarchy", None),
                         desc_get(desc, "invert", FALSE), FALSE, 0))
        ELSE IF cut_type = TypeRange
        THEN CutV(RangeCut(dim, desc_get(desc, "from", None),
                           desc_get(desc, "to", None),
                           desc_get(desc, "hierarchy", None),
                           desc_get(desc, "invert", FALSE), FALSE, 0))
        ELSE Raise("ArgumentError", cut_type)

\* the cuts converted: every class, with and without hierarchy, inverted
\* and hidden or not
DictCuts ==
    {PointCut(Dim, p, h, i, hd, 0) :
        p \in CutPaths, h \in {None, Some(Hier)}, i \in BOOLEAN, hd \in BOOLEAN}
    \cup
    {RangeCut(Dim, f, u, None, i, hd, 0) :
        f \in OptCutPaths, u \in OptCutPaths, i \in BOOLEAN, hd \in BOOLEAN}
    \cup
    {SetCut(Dim, ps, None, i, hd, 0) :
        ps \in SeqsUpTo(CutPaths \ {<<>>}, 2), i \in BOOLEAN, hd \in BOOLEAN}

\* the values of 'type' in the dictionaries a caller writes: None and strs
TypeValues ==
    {None}
    \cup {Some(s) : s \in {TypePoint, <<"P", "o", "i", "n", "t">>,
                           <<"P", "O", "I", "N", "T">>,
                           TypeRange, <<"R", "A", "N", "G", "E">>,
                           TypeSet, <<"s", "E", "t">>,
                           <<"o", "t", "h", "e", "r">>, <<"p", "o", "i", "n">>,
                           <<>>}}

\* dictionaries a caller writes: any 'type', path data of every kind, and
\* any of the other entries left out
RawDicts ==
    {[k \in {"type", "dimension", "hierarchy", "invert", "hidden", "path",
             "from", "to", "paths"} \ omitted |->
         IF k = "type" THEN ty
         ELSE IF k = "dimension" THEN Dim
         ELSE IF k = "hierarchy" THEN Some(Hier)
         ELSE IF k = "invert" THEN TRUE
         ELSE IF k = "hidden" THEN TRUE
         ELSE IF k = "path" THEN <<<<"a">>>>
         ELSE IF k = "from" THEN Some(<<<<"a">>>>)
         ELSE IF k = "to" THEN None
         ELSE <<<<<<"a">>>>, <<<<"b">>>>>>] :
        ty \in TypeValues,
        omitted \in SUBSET {"type", "hierarchy", "invert", "hidden"}}

DictInit ==
    /\ arg \in {CutV(c) : c \in DictCuts} \cup {DescV(d) : d \in RawDicts}
    /\ cube \in BOOLEAN
    /\ enc = NoCall
    /\ ret = NoCall
    /\ pc = "start"

InitDict == DictInit /\ CellIdle /\ HeapIdle /\ BrowserIdle /\ StreamIdle

\* arg.to_dict() of a cut
ToDict ==
    /\ pc = "start"
    /\ arg.t = "cut"
    /\ enc' = to_dict(arg.v)
    /\ pc' = "to_dict"
    /\ UNCHANGED <<arg, cube, ret>>
    /\ UNCHANGED <<cellVars, heapVars, browserVars, streamVars>>

\* cut_from_dict(arg.to_dict(), cube) of a cut, cut_from_dict(arg, cube) of a
\* dictionary
CutFromDict ==
    /\ \/ pc = "to_dict" /\ enc.t = "dict" /\ ret' = cut_from_dict(enc.v, cube)
       \/ pc = "start" /\ arg.t = "dict" /\ ret' = cut_from_dict(arg.v, cube)
    /\ pc' = "cut_from_dict"
    /\ UNCHANGED <<arg, cube, enc>>
    /\ UNCHANGED <<cellVars, heapVars, browserVars, streamVars>>

DictNext ==
    \/ ToDict
    \/ CutFromDict

SpecDict == InitDict /\ [][DictNext]_vars

\* s is word in some letter case
EqualsIgnoringCase(s, word) ==
    /\ Len(s) = Len(word)
    /\ \A i \in 1..Len(s) :
          \/ s[i] = word[i]
          \/ \E k \in 1..Len(LowerCase) :
                LowerCase[k] = word[i] /\ UpperCase[k] = s[i]

\* the class 'type' names, in any letter case, or "none"
KindNamed(s) ==
    IF EqualsIgnoringCase(s, TypePoint) THEN "point"
    ELSE IF EqualsIgnoringCase(s, TypeRange) THEN "range"
    ELSE IF EqualsIgnoringCase(s, TypeSet) THEN "set"
    ELSE "none"

\* cut_from_dict was called on a dictionary a caller wrote
FromRawDict == pc = "cut_from_dict" /\ arg.t = "dict"

C30_DictRoundTrip ==
    (pc = "cut_from_dict" /\ arg.t = "cut" /\ SetCutsHavePaths(<<arg.v>>))
        => /\ ret.t = "cut"
           /\ ret.v.kind = arg.v.kind
           /\ ret.v.dimension = arg.v.dimension
           /\ ret.v.hierarchy = arg.v.hierarchy
           /\ ret.v.invert = arg.v.invert
           /\ ret.v.hidden = arg.v.hidden
           /\ ret.v.path = arg.v.path
           /\ ret.v.from_path = arg.v.from_path
           /\ ret.v.to_path = arg.v.to_path
           /\ ret.v.paths = arg.v.paths

(***************************************************************************)
(* Claims about the aggregates of a statement.                             *)
(***************************************************************************)
\* why an aggregate cannot be compiled, or "none": it has neither function
\* nor expression, it has an expression, or its function's name is, in any
\* letter case, no name of the registry
DefectOf(aggregate) ==
    IF IsNone(aggregate.expression) /\ IsNone(aggregate.function)
    THEN "ModelError"
    ELSE IF ~IsNone(aggregate.expression) THEN "NotImplementedError"
    ELSE IF ~\E f \in available_aggregate_functions :
                EqualsIgnoringCase(aggregate.function[1], f)
    THEN "NotImplementedError"
    ELSE "none"

BadAggregates(aggregates) ==
    \/ aggregates = <<>>
    \/ \E i \in 1..Len(aggregates) : DefectOf(aggregates[i]) # "none"

\* the error the list of aggregates gives: that of the empty list or of the
\* first aggregate with a defect
ErrorOfAggregates(aggregates) ==
    IF aggregates = <<>> THEN "ArgumentError"
    ELSE LET bad == {i \in 1..Len(aggregates) : DefectOf(aggregates[i]) # "none"}
         IN  DefectOf(aggregates[CHOOSE i \in bad : \A j \in bad : i <= j])

MaxRows == 3
\* most rows one fetchmany() returns
MaxBatch == 2

\* the labels of the rows: a key and a built-in aggregate
RowLabels == <<"year", "amount_sum">>

\* the cursors: row i has the key i and an aggregate that is 5 or null
RowLists ==
    UNION {[1..n -> {<<Some(5)>>, <<None>>}] : n \in 0..MaxRows}
Cursors ==
    {[rows |-> [i \in 1..Len(l) |-> <<Some(i)>> \o l[i]], pos |-> 0,
      closed |-> FALSE, batches |-> 0] : l \in RowLists}

\* cursor.fetchmany() returning up to size rows: the rows and the cursor
\* after the call.  A cursor that has no row left releases itself.
fetchmany(cur, size) ==
    LET last == Min(cur.pos + size, Len(cur.rows))
        many == SubSeq(cur.rows, cur.pos + 1, last)
    IN  [many |-> many,
         cursor |-> [cur EXCEPT !.pos = last,
                                !.closed = cur.closed \/ many = <<>>,
                                !.batches = IF many = <<>> THEN cur.batches
                                            ELSE cur.batches + 1]]

\* deque.pop(): the row at the right end and the deque without it
pop(batch) ==
    [row |-> batch[Len(batch)], batch |-> SubSeq(batch, 1, Len(batch) - 1)]

\* deque.popleft(): the row at the left end and the deque without it
popleft(batch) == [row |-> Head(batch), batch |-> Tail(batch)]

\* dict(zip(labels, row))
dict_zip(labels, row) ==
    LET n == Min(Len(labels), Len(row))
    IN  [k \in {labels[i] : i \in 1..n} |->
            row[CHOOSE i \in 1..n :
                   labels[i] = k /\ \A j \in 1..n : labels[j] = k => j <= i]]

\* ResultIterator(result, labels)
ResultIterator(labels) ==
    [batch |-> None, labels |-> labels, exclude_if_null |-> None]

\* provide_aggregate has returned the result of a drilldown over a cursor:
\* result.cells is the ResultIterator and result.exclude_if_null holds the
\* names when the browser excludes null aggregates.  The class of the result
\* may or may not hand the names on to its cells.
StreamInit ==
    /\ cursor \in Cursors
    /\ browser \in [include_summary : {TRUE}, include_cell_count : {TRUE},
                    exclude_null_agregates : BOOLEAN]
    /\ call = NoCall
    /\ executed = <<>>
    /\ at = "returned"
    /\ result = [AggregationResult(<<>>, <<AggSum>>) EXCEPT
                    !.v.cells = Some(Len(cursor.rows)),
                    !.v.labels = Some(RowLabels),
                    !.v.exclude_if_null =
                        IF browser.exclude_null_agregates
                        THEN Some(<<RowLabels[2]>>) ELSE None]
    /\ stream \in {ResultIterator(RowLabels),
                   [ResultIterator(RowLabels) EXCEPT
                       !.exclude_if_null = result.v.exclude_if_null]}
    /\ gens = [g \in Generators |-> "created"]
    /\ out = <<>>

InitStream == CodecIdle /\ CellIdle /\ HeapIdle /\ StreamInit

\* next(g) of a generator of ResultIterator.__iter__: the body of the loop
\* up to the yield, the break or the exception; size is the number of rows
\* fetchmany() returns at most.  A generator that has ended stays ended.
NextRow ==
    \E g \in Generators, size \in 1..MaxBatch :
       /\ gens[g] # "none"
       /\ IF gens[g] \notin {"created", "suspended"}
          THEN UNCHANGED <<cursor, stream, gens, out>>
          ELSE LET fetch == ~Truthy(stream.batch)
                   fetched == fetchmany(cursor, size)
               IN  IF fetch /\ fetched.many = <<>>
                   THEN /\ cursor' = fetched.cursor
                        /\ gens' = [gens EXCEPT ![g] = "done"]
                        /\ UNCHANGED <<stream, out>>
                   ELSE LET batch == IF fetch THEN fetched.many ELSE stream.batch[1]
                            popped == popleft(batch)
                        IN  /\ cursor' = IF fetch THEN fetched.cursor ELSE cursor
                            /\ stream' = [stream EXCEPT !.batch = Some(popped.batch)]
                            \* self.exclude_if_nul: no such attribute
                            /\ IF Truthy(stream.exclude_if_null)
                               THEN /\ gens' = [gens EXCEPT ![g] = "AttributeError"]
                                    /\ UNCHANGED out
                               ELSE /\ gens' = [gens EXCEPT ![g] = "suspended"]
                                    /\ out' = Append(out,
                                          [gen |-> g,
                                           record |-> dict_zip(stream.labels,
                                                               popped.row)])
       /\ UNCHANGED <<codecVars, cellVars, heapVars, browserVars>>

\* g.close() of a generator; ResultIterator defines no close of its own and
\* its __iter__ has no finally clause
Close ==
    \E g \in Generators :
       /\ gens[g] \in {"created", "suspended"}
       /\ gens' = [gens EXCEPT ![g] = "closed"]
       /\ UNCHANGED <<cursor, stream, out>>
       /\ UNCHANGED <<codecVars, cellVars, heapVars, browserVars>>

StreamNext ==
    \/ NextRow
    \/ Close

SpecStream == InitStream /\ [][StreamNext]_vars

\* the records yielded so far, in order
Records == [i \in 1..Len(out) |-> out[i].record]

\* no aggregate of names is null in the row
NoNullAggregate(row, names) ==
    \A i \in 1..Len(RowLabels) :
       (\E k \in 1..Len(names) : names[k] = RowLabels[i]) => ~IsNone(row[i])

\* the records, in cursor order, of the rows in which no aggregate of names
\* is null
RECURSIVE RecordsOf(_, _)
RecordsOf(rows, names) ==
    IF rows = <<>> THEN <<>>
    ELSE (IF NoNullAggregate(Head(rows), names)
          THEN <<dict_zip(RowLabels, Head(rows))>> ELSE <<>>)
            \o RecordsOf(Tail(rows), names)

\* the records yielded are the first of expected, and all of them once a
\* generator has found the cursor exhausted; no generator has raised
YieldsExactly(expected) ==
    /\ \A g \in Generators : gens[g] # "AttributeError"
    /\ Len(out) <= Len(expected)
    /\ Records = SubSeq(expected, 1, Len(out))
    /\ (\E g \in Generators : gens[g] = "done") => Len(out) = Len(expected)

\* C21: with null-exclusion enabled, iterating the result stream of a
\* drilldown yields exactly the cursor rows in which no aggregate named in
\* exclude_if_null is null, in cursor order, and does not raise.
C21_NullRowsExcluded ==
    (stream.labels # <<>> /\ browser.exclude_null_agregates)
        => YieldsExactly(RecordsOf(cursor.rows, result.v.exclude_if_null[1]))

\* C22: a stream closed in mid-iteration has released its cursor, every
\* later step of it yields no row and raises nothing, and an exhausted
\* stream has released its cursor too.
C22_CloseReleasesCursor ==
    /\ [](\A g \in Generators : gens[g] \in {"closed", "done"} => cursor.closed)
    /\ [][\A g \in Generators :
             gens[g] = "closed" => (gens'[g] = "closed" /\ out' = out)]_vars

\* C29: with no null-exclusion configured, the generators of a
\* ResultIterator yield between them every row once, in cursor order, as a
\* dictionary of label to value, whatever the sizes of the fetchmany batches,
\* and end when fetchmany returns an empty batch.
C29_EveryRowOnce ==
    (stream.labels # <<>> /\ IsNone(stream.exclude_if_null))
        => /\ YieldsExactly(RecordsOf(cursor.rows, <<>>))
           /\ \A g \in Generators : gens[g] = "done" => cursor.pos = Len(cursor.rows)
           /\ \A i \in 1..Len(out) :
                 /\ DOMAIN out[i].record = {RowLabels[k] : k \in 1..Len(RowLabels)}
                 /\ \A k \in 1..Len(RowLabels) :
                       out[i].record[RowLabels[k]] = cursor.rows[i][k]

\* two interleaved generators have between them yielded all the rows of a
\* cursor that was fetched in more than one batch
C29_Witness ==
    /\ IsNone(stream.exclude_if_null)
    /\ Len(cursor.rows) = MaxRows
    /\ cursor.batches > 1
    /\ \A g \in Generators : gens[g] = "done"
    /\ \A g \in Generators : \E i \in 1..Len(out) : out[i].gen = g
    /\ Len(out) = Len(cursor.rows)

====
